---- MODULE Spec2Model ----
(***************************************************************************)
(* Verification model of wp-analyzer's analytics core: the scorer          *)
(* (utils/calc-points.ts), the filter engine (utils/filtering.ts) and the  *)
(* stats engine with its result cache (utils/stats.ts).                    *)
(*                                                                         *)
(* Conventions                                                             *)
(*  - An optional value (null / undefined in the source) is a sequence of  *)
(*    length 0 or 1: <<>> is null, <<v>> is the value v.                   *)
(*  - A string is represented by its length wherever the code only reads   *)
(*    its length and truthiness (message content, poll question).          *)
(*  - Point values are exact fixed-point numbers in units of 1/Scale; all  *)
(*    rates of POINTS_CONFIG are whole multiples of that unit.             *)
(*  - An instant is a whole number of ticks since 1970-01-01 00:00 local   *)
(*    time, TicksPerDay ticks to the day, in a time zone without daylight  *)
(*    saving.                                                              *)
(***************************************************************************)
EXTENDS Integers, Sequences, FiniteSets, TLC

VARIABLES
  msg,        \* scorer: the message handed to calcPoints
  points,     \* scorer: <<>> before the call, <<p>> once calcPoints returned p
  data0,      \* engine: the collection as it was handed to the constructor
  heap,       \* engine: the arrays alive, by reference; heap[DataRef] is this.data
  cache,      \* engine: this.cache, a function from cache key to stored value
  now,        \* the host clock (new Date())
  call,       \* engine: the last public operation issued, with its arguments
  ret,        \* engine: what that operation returned (or the error it threw)
  filtered,   \* engine: the list getFilteredData handed to that operation
  calls,      \* engine: number of operations issued so far
  text,       \* parser: the string handed to the parser, one character an element
  userNames,  \* parser: useData.getState().userNames
  parsed,     \* parser: <<>> before the call, <<r>> once the parser returned r
  debounces,  \* hook: TRUE for the useStats that debounces the list, FALSE for the one that does not
  filteredMessages,   \* hook: the list useFilteredMessages returns
  debouncedMessages,  \* hook: the list computeStats and statsInstance are built from
  handler,    \* hook: the pending timer of useDebounce, <<>> or <<list>>
  pending,    \* hook: the computeStats runs that await their delay, oldest first
  statsData,  \* hook: <<>> or <<list>>, the list the statistics shown were computed from
  isLoading   \* hook: the loading flag

vars == <<msg, points, data0, heap, cache, now, call, ret, filtered, calls,
          text, userNames, parsed, debounces, filteredMessages, debouncedMessages,
          handler, pending, statsData, isLoading>>

Null == <<>>
Some(v) == <<v>>
IsNull(x) == x = <<>>
Val(x) == x[1]

Min(a, b) == IF a < b THEN a ELSE b
Max(a, b) == IF a > b THEN a ELSE b

RECURSIVE SumSeq(_)
SumSeq(s) == IF s = <<>> THEN 0 ELSE Head(s) + SumSeq(Tail(s))

(***************************************************************************)
(* Scorer: utils/calc-points.ts                                            *)
(***************************************************************************)
Scale == 60000

ContentTypes ==
  {"text", "image", "video", "audio", "document", "sticker", "contact",
   "gif", "call", "poll", "video note"}

MessageStatuses == {"active", "edited", "deleted"}

\* POINTS_CONFIG.base, in units of 1/Scale
BasePoints ==
  [text |-> 60000, image |-> 120000, video |-> 150000, audio |-> 105000,
   document |-> 120000, sticker |-> 60000, contact |-> 30000, gif |-> 60000,
   call |-> 60000, poll |-> 120000, video_note |-> 120000]

BaseOf(type) ==
  IF type = "video note" THEN BasePoints.video_note ELSE BasePoints[type]

textPerChar == 600
textMaxChars == 500
pollPerOption == 18000
pollPerChar == 300
pollMaxChars == 200
callPerSecond == 500          \* callPerMinute (0.5) / 60 seconds
callPerParticipant == 12000
callMissedPenalty == -30000
contentPerChar == 120
contentMaxChars == 300

\* POINTS_CONFIG.status; the multipliers are in tenths, the deleted entry is
\* returned as a point value and is therefore in units of 1/Scale
statusActive == 10
statusEdited == 11
statusDeleted == -12000

minPoints == 30000
maxPoints == 600000

clampPoints(p) == Max(minPoints, Min(maxPoints, p))

calculateTextPoints(content) ==
  IF IsNull(content) \/ Val(content) = 0 THEN 0
  ELSE Min(Val(content), textMaxChars) * textPerChar

\* poll: <<>> or <<[question |-> length, options |-> sequence of vote counts]>>
calculatePollPoints(poll) ==
  IF IsNull(poll) THEN 0
  ELSE LET p == Val(poll)
           optionPoints == Len(p.options) * pollPerOption
           questionPoints ==
             IF p.question > 0 THEN Min(p.question, pollMaxChars) * pollPerChar
             ELSE 0
       IN  optionPoints + questionPoints

\* call: <<>> or <<[type, missed, joined, duration]>>, the last three optional
calculateCallPoints(c) ==
  IF IsNull(c) THEN 0
  ELSE LET k == Val(c)
           durationPoints ==
             IF ~IsNull(k.duration) /\ Val(k.duration) # 0
             THEN Val(k.duration) * callPerSecond ELSE 0
           joinedPoints ==
             IF ~IsNull(k.joined) /\ Val(k.joined) # 0
             THEN Val(k.joined) * callPerParticipant ELSE 0
           missedPoints ==
             IF ~IsNull(k.missed) /\ Val(k.missed) THEN callMissedPenalty ELSE 0
       IN  durationPoints + joinedPoints + missedPoints

calculateContentBonus(content) ==
  IF IsNull(content) \/ Val(content) = 0 THEN 0
  ELSE Min(Val(content), contentMaxChars) * contentPerChar

statusModifier(status) ==
  IF status = "edited" THEN statusEdited ELSE statusActive

additionalPoints(message) ==
  CASE message.type = "text" -> calculateTextPoints(message.content)
    [] message.type = "poll" -> calculatePollPoints(message.poll)
    [] message.type = "call" -> calculateCallPoints(message.call)
    [] OTHER -> calculateContentBonus(message.content)

totalPoints(message) ==
  ((BaseOf(message.type) + additionalPoints(message)) * statusModifier(message.status)) \div 10

\* a plausible slip: the deleted entry of the status table used as the
\* multiplier it is listed as, instead of being returned
calcPointsScaledDeleted(m) ==
  IF m.message.status = "deleted"
  THEN ((BaseOf(m.message.type) + additionalPoints(m.message)) \div 10) * (statusDeleted \div 6000)
  ELSE clampPoints(totalPoints(m.message))

calcPoints(m) ==
  IF m.message.status = "deleted" THEN statusDeleted
  ELSE clampPoints(totalPoints(m.message))

(***************************************************************************)
(* Scorer specification: calcPoints applied to one message drawn from a    *)
(* bounded set covering every type, every status, content below, at and    *)
(* above each cap, and call / poll payloads on every type.                 *)
(***************************************************************************)
MaxExtraChars == 1
MaxDuration == 1200
MaxJoined == 8
MaxOptions == 2

ScoreContents ==
  {Null, Some(0), Some(1), Some(contentMaxChars), Some(contentMaxChars + MaxExtraChars),
   Some(textMaxChars), Some(textMaxChars + MaxExtraChars)}

ScoreCalls ==
  {Null} \cup
  { Some([type |-> t, missed |-> mi, joined |-> j, duration |-> d]) :
      t \in {"voice", "video"},
      mi \in {Null, Some(TRUE), Some(FALSE)},
      j \in {Null, Some(0), Some(MaxJoined)},
      d \in {Null, Some(0), Some(MaxDuration)} }

ScoreOptions == { [i \in 1..n |-> i] : n \in 0..MaxOptions }

ScorePolls ==
  {Null} \cup
  { Some([question |-> q, options |-> o]) :
      q \in {0, 1, pollMaxChars + MaxExtraChars}, o \in ScoreOptions }

ScoreMessages ==
  [author : {"a"}, timestamp : {0},
   message : [type : ContentTypes, status : MessageStatuses, content : ScoreContents,
              call : ScoreCalls, poll : ScorePolls]]

engineIdle ==
  /\ data0 = <<>>
  /\ heap = <<>>
  /\ cache = <<>>
  /\ now = 0
  /\ call = <<>>
  /\ ret = <<>>
  /\ filtered = <<>>
  /\ calls = 0

engineVars == <<data0, heap, cache, now, call, ret, filtered, calls>>
scorerVars == <<msg, points>>
parserVars == <<text, userNames, parsed>>

parserIdle ==
  /\ text = <<>>
  /\ userNames = <<>>
  /\ parsed = <<>>

hookVars == <<debounces, filteredMessages, debouncedMessages, handler, pending,
              statsData, isLoading>>

NoMessages == [id |-> 0, length |-> 0]

hookIdle ==
  /\ debounces = FALSE
  /\ filteredMessages = NoMessages
  /\ debouncedMessages = NoMessages
  /\ handler = <<>>
  /\ pending = <<>>
  /\ statsData = <<>>
  /\ isLoading = FALSE

ScoreInit ==
  /\ msg \in ScoreMessages
  /\ points = Null
  /\ engineIdle
  /\ parserIdle
  /\ hookIdle

Score ==
  /\ IsNull(points)
  /\ points' = Some(calcPoints(msg))
  /\ UNCHANGED <<msg, engineVars, parserVars, hookVars>>

ScoreNext == Score

ScoreSpec == ScoreInit /\ [][ScoreNext]_vars

\* C1: every value calcPoints returns lies in [minPoints, maxPoints]
C1_Clamped ==
  ~IsNull(points) => (minPoints <= Val(points) /\ Val(points) <= maxPoints)

\* C2: for a deleted message calcPoints returns the fixed deleted value,
\* whatever the type, content, call and poll of the message
C2_DeletedFixed ==
  (~IsNull(points) /\ msg.message.status = "deleted") => Val(points) = statusDeleted

\* a deleted poll with options and a question has been scored
C2_Witness ==
  /\ ~IsNull(points)
  /\ msg.message.status = "deleted"
  /\ msg.message.type = "poll"
  /\ ~IsNull(msg.message.poll)
  /\ Len(Val(msg.message.poll).options) = MaxOptions
  /\ ~IsNull(msg.message.content)

(***************************************************************************)
(* Local calendar arithmetic of the host's Date object, as used by         *)
(* getFilteredData: getFullYear / getMonth / getDate read the civil date   *)
(* of an instant, setFullYear / setMonth / setDate write one field and     *)
(* normalise an out-of-range day or month into the following ones.         *)
(***************************************************************************)
TicksPerDay == 2

DayOf(t) == t \div TicksPerDay
TickOfDay(t) == t % TicksPerDay

\* days since 1970-01-01 of the civil date y-m-d (m in 1..12, d in 1..31)
DaysFromCivil(y, m, d) ==
  LET yy  == IF m <= 2 THEN y - 1 ELSE y
      era == yy \div 400
      yoe == yy - era * 400
      mp  == IF m > 2 THEN m - 3 ELSE m + 9
      doy == (153 * mp + 2) \div 5 + d - 1
      doe == yoe * 365 + yoe \div 4 - yoe \div 100 + doy
  IN  era * 146097 + doe - 719468

\* the civil date of day number z
CivilFromDays(z) ==
  LET zz  == z + 719468
      era == zz \div 146097
      doe == zz - era * 146097
      yoe == (doe - doe \div 1460 + doe \div 36524 - doe \div 146096) \div 365
      doy == doe - (365 * yoe + yoe \div 4 - yoe \div 100)
      mp  == (5 * doy + 2) \div 153
      d   == doy - (153 * mp + 2) \div 5 + 1
      m   == IF mp < 10 THEN mp + 3 ELSE mp - 9
      y   == yoe + era * 400 + (IF m <= 2 THEN 1 ELSE 0)
  IN  [year |-> y, month |-> m, day |-> d]

\* MakeDay of the language standard: month index mi counts from 0 and may be
\* out of 0..11, day d may be out of the month's range
MakeDay(y, mi, d) ==
  DaysFromCivil(y + mi \div 12, (mi % 12) + 1, 1) + d - 1

setFullYear(t, y) ==
  LET c == CivilFromDays(DayOf(t))
  IN  MakeDay(y, c.month - 1, c.day) * TicksPerDay + TickOfDay(t)

setMonth(t, mi) ==
  LET c == CivilFromDays(DayOf(t))
  IN  MakeDay(c.year, mi, c.day) * TicksPerDay + TickOfDay(t)

setDate(t, d) ==
  LET c == CivilFromDays(DayOf(t))
  IN  MakeDay(c.year, c.month - 1, d) * TicksPerDay + TickOfDay(t)

getFullYear(t) == CivilFromDays(DayOf(t)).year
getMonth(t) == CivilFromDays(DayOf(t)).month - 1
getDate(t) == CivilFromDays(DayOf(t)).day

(***************************************************************************)
(* Filter engine: utils/filtering.ts                                       *)
(* A field operator is a record of optional operands; a filter node is a   *)
(* record of optional combinators and optional field operators.            *)
(***************************************************************************)
NoOperator ==
  [eq |-> Null, neq |-> Null, gt |-> Null, gte |-> Null, lt |-> Null, lte |-> Null]

NoContentFilter == [type |-> Null, content |-> Null, status |-> Null]

NoFilter ==
  [AND |-> Null, OR |-> Null, NOT |-> Null,
   author |-> Null, timestamp |-> Null, message |-> Null]

\* numeric is TRUE for a number or a Date value: only those are compared
\* with gt / gte / lt / lte
evaluateFieldFilter(value, f, numeric) ==
  /\ ~(~IsNull(f.eq) /\ value # Val(f.eq))
  /\ ~(~IsNull(f.neq) /\ value = Val(f.neq))
  /\ numeric =>
       /\ ~(~IsNull(f.gt) /\ value <= Val(f.gt))
       /\ ~(~IsNull(f.gte) /\ value < Val(f.gte))
       /\ ~(~IsNull(f.lt) /\ value >= Val(f.lt))
       /\ ~(~IsNull(f.lte) /\ value > Val(f.lte))

evaluateContentInfoFilter(contentInfo, f) ==
  /\ ~(~IsNull(f.type) /\ ~evaluateFieldFilter(contentInfo.type, Val(f.type), FALSE))
  /\ ~(~IsNull(f.content) /\ ~evaluateFieldFilter(contentInfo.content, Val(f.content), FALSE))
  /\ ~(~IsNull(f.status) /\ ~evaluateFieldFilter(contentInfo.status, Val(f.status), FALSE))

RECURSIVE evaluateFilter(_, _)
evaluateFilter(message, f) ==
  IF ~IsNull(f.AND)
  THEN \A i \in 1..Len(Val(f.AND)) : evaluateFilter(message, Val(f.AND)[i])
  ELSE IF ~IsNull(f.OR)
  THEN \E i \in 1..Len(Val(f.OR)) : evaluateFilter(message, Val(f.OR)[i])
  ELSE IF ~IsNull(f.NOT)
  THEN ~evaluateFilter(message, Val(f.NOT))
  ELSE /\ ~(~IsNull(f.author) /\ ~evaluateFieldFilter(message.author, Val(f.author), FALSE))
       /\ ~(~IsNull(f.timestamp) /\ ~evaluateFieldFilter(message.timestamp, Val(f.timestamp), TRUE))
       /\ ~(~IsNull(f.message) /\ ~evaluateContentInfoFilter(message.message, Val(f.message)))

RECURSIVE SelectWhere(_, _)
SelectWhere(list, f) ==
  IF list = <<>> THEN <<>>
  ELSE IF evaluateFilter(Head(list), f)
       THEN <<Head(list)>> \o SelectWhere(Tail(list), f)
       ELSE SelectWhere(Tail(list), f)

\* Filter.where over the array the Filter was constructed with
where(data, f) == SelectWhere(data, f)

(***************************************************************************)
(* Stats engine: utils/stats.ts                                            *)
(*                                                                         *)
(* Arrays are held by reference: heap is the sequence of arrays alive,     *)
(* a reference is an index into it, and heap[DataRef] is the array the     *)
(* engine was constructed with (this.data).  A cached getFilteredData      *)
(* result is a reference, so that an in-place sort of the array a query    *)
(* was handed is seen by every holder of that reference.                   *)
(*                                                                         *)
(* A config is a record of the fields a caller may set, absent ones Null;  *)
(* JSON.stringify(config) is modelled by the record itself (callers list   *)
(* the fields in the order of the type declarations).                      *)
(***************************************************************************)
DataRef == 1

NoConfig ==
  [timePeriod |-> "total", customStartDate |-> Null, customEndDate |-> Null,
   includeDeleted |-> Null, rankingType |-> Null, limit |-> Null]

getCacheKey(method, config) == <<method, config>>

\* this.cache.has(cacheKey): a plausible slip is a lookup that never hits
cacheHasNever(c, key) == FALSE

cacheHas(c, key) == key \in DOMAIN c

cacheSet(c, key, value) == [k \in DOMAIN c \cup {key} |-> IF k = key THEN value ELSE c[k]]

\* computeFn threw: the exception leaves getCachedOrCompute before cache.set;
\* a plausible slip is a handler that stores the failure as the result
storeOutcomeAlways(c, key, outcome) == cacheSet(c, key, outcome.value)

storeOutcome(c, key, outcome) ==
  IF outcome.ok THEN cacheSet(c, key, outcome.value) ELSE c

Ok(v) == [ok |-> TRUE, value |-> v]
Err(e) == [ok |-> FALSE, value |-> e]

\* the start instant getFilteredData derives from the clock
startOfWindow(timePeriod, t) ==
  CASE timePeriod = "last_year"  -> Some(setFullYear(t, getFullYear(t) - 1))
    [] timePeriod = "last_month" -> Some(setMonth(t, getMonth(t) - 1))
    [] timePeriod = "last_week"  -> Some(setDate(t, getDate(t) - 7))
    [] timePeriod = "last_day"   -> Some(setDate(t, getDate(t) - 1))
    [] OTHER -> Null

includeDeletedOf(config) ==
  IF IsNull(config.includeDeleted) THEN TRUE ELSE Val(config.includeDeleted)

statusNotDeleted ==
  [NoContentFilter EXCEPT !.status = Some([NoOperator EXCEPT !.neq = Some("deleted")])]

startDateOf(config, t) ==
  IF config.timePeriod = "custom" THEN config.customStartDate
  ELSE startOfWindow(config.timePeriod, t)

endDateOf(config) ==
  IF config.timePeriod = "custom" THEN config.customEndDate ELSE Null

\* { ...timeFilter, ...statusFilter }
windowFilterOf(startDate, endDate, includeDeleted) ==
  [NoFilter EXCEPT
     !.timestamp = IF ~IsNull(startDate) \/ ~IsNull(endDate)
                   THEN Some([NoOperator EXCEPT !.gte = startDate, !.lte = endDate])
                   ELSE Null,
     !.message   = IF includeDeleted THEN Null ELSE Some(statusNotDeleted)]

\* the filter getFilteredData builds for a period other than total
windowFilter(config, t) ==
  windowFilterOf(startDateOf(config, t), endDateOf(config), includeDeletedOf(config))

\* the list computeFn of getFilteredData builds when it does not hand out
\* this.data itself
computeFilteredData(data, config, t) ==
  IF config.timePeriod = "total"
  THEN where(data, [NoFilter EXCEPT !.message = Some(statusNotDeleted)])
  ELSE where(data, windowFilter(config, t))

\* st is [heap, cache]; the result is the state after the call, the
\* reference returned and whether computeFn ran
getFilteredData(st, config, t) ==
  IF cacheHas(st.cache, getCacheKey("getFilteredData", config))
  THEN [st |-> st, value |-> st.cache[getCacheKey("getFilteredData", config)],
        computed |-> FALSE]
  ELSE IF config.timePeriod = "total" /\ includeDeletedOf(config)
  THEN [st |-> [st EXCEPT !.cache = cacheSet(@, getCacheKey("getFilteredData", config), DataRef)],
        value |-> DataRef, computed |-> TRUE]
  ELSE [st |-> [heap  |-> Append(st.heap, computeFilteredData(st.heap[DataRef], config, t)),
                cache |-> cacheSet(st.cache, getCacheKey("getFilteredData", config),
                                   Len(st.heap) + 1)],
        value |-> Len(st.heap) + 1, computed |-> TRUE]

(***************************************************************************)
(* Array helpers: Array.prototype.sort is stable, filter and map keep the  *)
(* order of the array.                                                     *)
(***************************************************************************)
RECURSIVE InsertByTime(_, _)
InsertByTime(sorted, m) ==
  IF sorted = <<>> THEN <<m>>
  ELSE IF Head(sorted).timestamp <= m.timestamp
       THEN <<Head(sorted)>> \o InsertByTime(Tail(sorted), m)
       ELSE <<m>> \o sorted

\* list.sort((a, b) => a.timestamp - b.timestamp)
RECURSIVE SortByTime(_)
SortByTime(list) ==
  IF list = <<>> THEN <<>>
  ELSE InsertByTime(SortByTime(SubSeq(list, 1, Len(list) - 1)), list[Len(list)])

\* a plausible slip: an entry is placed before the entries of equal value
RECURSIVE InsertByValueBeforeEqual(_, _)
InsertByValueBeforeEqual(sorted, r) ==
  IF sorted = <<>> THEN <<r>>
  ELSE IF Head(sorted).value > r.value
       THEN <<Head(sorted)>> \o InsertByValueBeforeEqual(Tail(sorted), r)
       ELSE <<r>> \o sorted

RECURSIVE InsertByValue(_, _)
InsertByValue(sorted, r) ==
  IF sorted = <<>> THEN <<r>>
  ELSE IF Head(sorted).value >= r.value
       THEN <<Head(sorted)>> \o InsertByValue(Tail(sorted), r)
       ELSE <<r>> \o sorted

\* rankings.sort((a, b) => b.value - a.value)
RECURSIVE SortByValueDesc(_)
SortByValueDesc(list) ==
  IF list = <<>> THEN <<>>
  ELSE InsertByValue(SortByValueDesc(SubSeq(list, 1, Len(list) - 1)), list[Len(list)])

\* [...new Set(list.map(msg => msg.author))]: distinct authors, first seen first
RECURSIVE Users(_)
Users(list) ==
  IF list = <<>> THEN <<>>
  ELSE LET rest == Users(SubSeq(list, 1, Len(list) - 1))
           a    == list[Len(list)].author
       IN  IF \E i \in 1..Len(rest) : rest[i] = a THEN rest ELSE Append(rest, a)

RECURSIVE ByAuthor(_, _)
ByAuthor(list, author) ==
  IF list = <<>> THEN <<>>
  ELSE IF Head(list).author = author
       THEN <<Head(list)>> \o ByAuthor(Tail(list), author)
       ELSE ByAuthor(Tail(list), author)

RECURSIVE SumPoints(_)
SumPoints(list) ==
  IF list = <<>> THEN 0 ELSE calcPoints(Head(list)) + SumPoints(Tail(list))

\* array.slice(0, limit): limit absent keeps all, a negative limit counts
\* from the end
SliceTo(list, limit) ==
  IF IsNull(limit) THEN list
  ELSE LET n == Len(list)
           e == IF Val(limit) < 0 THEN Max(n + Val(limit), 0) ELSE Min(Val(limit), n)
       IN  SubSeq(list, 1, e)

(***************************************************************************)
(* Activity score.  Values are in units of 1/ActivityScale.  Math.exp is   *)
(* evaluated in fixed point, one factor exp(-timeDecayFactor * 7) per      *)
(* whole week of age and one factor exp(-timeDecayFactor / TicksPerDay)    *)
(* per remaining tick, truncated at every step.                            *)
(***************************************************************************)
ActivityScale == 600000
messageWeight == 240000      \* 0.4
pointWeight == 4             \* 0.4, applied to a point value in 1/Scale
uniqueDayBonus == 120000     \* 0.2
DecayPerMille == 951         \* exp(-0.1 / 2) = 0.9512...
WeekDecayPerMille == 497     \* exp(-0.1 * 7) = 0.4965...
GrowthPerMille == 1051       \* exp(+0.1 / 2) = 1.0512...
DecayHorizon == 260          \* beyond it the fixed-point value is 0

RECURSIVE Decay(_)
Decay(n) ==
  IF n = 0 THEN ActivityScale
  ELSE IF n >= 7 * TicksPerDay
       THEN (Decay(n - 7 * TicksPerDay) * WeekDecayPerMille) \div 1000
       ELSE (Decay(n - 1) * DecayPerMille) \div 1000

RECURSIVE Growth(_)
Growth(n) == IF n = 0 THEN ActivityScale ELSE (Growth(n - 1) * GrowthPerMille) \div 1000

\* Math.exp(-timeDecayFactor * daysDiff) for a message age of the given ticks
expDecay(age) ==
  IF age < 0 THEN Growth(-age)
  ELSE IF age > DecayHorizon THEN 0 ELSE Decay(age)

RECURSIVE SumDecay(_, _)
SumDecay(list, t) ==
  IF list = <<>> THEN 0
  ELSE expDecay(t - Head(list).timestamp) + SumDecay(Tail(list), t)

ActiveDates(list) == { DayOf(list[i].timestamp) : i \in 1..Len(list) }

calculateActivityScore(messages, t) ==
  IF Len(messages) = 0 THEN 0
  ELSE Len(messages) * messageWeight
       + SumPoints(messages) * pointWeight
       + SumDecay(messages, t)
       + Cardinality(ActiveDates(messages)) * uniqueDayBonus

(***************************************************************************)
(* Date strings.  toDateString renders an instant as "Www Mmm DD YYYY"     *)
(* (weekday and month abbreviated in English, the day of the month padded  *)
(* to two digits); the string is kept as the record of its four fields.    *)
(* Strings are ordered as Array.prototype.sort() orders them without a     *)
(* comparator: by code unit, that is field by field from the left, names   *)
(* alphabetically.  new Date(string) reads the string back as local        *)
(* midnight of that date.                                                  *)
(***************************************************************************)
WeekdayNames == <<"Sun", "Mon", "Tue", "Wed", "Thu", "Fri", "Sat">>

MonthNames ==
  <<"Jan", "Feb", "Mar", "Apr", "May", "Jun", "Jul", "Aug", "Sep", "Oct", "Nov", "Dec">>

\* the position of each abbreviation in code-unit order
Alphabetical ==
  [Apr |-> 1, Aug |-> 2, Dec |-> 3, Feb |-> 4, Fri |-> 5, Jan |-> 6, Jul |-> 7,
   Jun |-> 8, Mar |-> 9, May |-> 10, Mon |-> 11, Nov |-> 12, Oct |-> 13, Sat |-> 14,
   Sep |-> 15, Sun |-> 16, Thu |-> 17, Tue |-> 18, Wed |-> 19]

\* the month number a date string's month abbreviation is read back as
MonthNumber ==
  [Jan |-> 1, Feb |-> 2, Mar |-> 3, Apr |-> 4, May |-> 5, Jun |-> 6, Jul |-> 7,
   Aug |-> 8, Sep |-> 9, Oct |-> 10, Nov |-> 11, Dec |-> 12]

\* getDay: 0 is Sunday; 1970-01-01 was a Thursday
getDay(t) == (DayOf(t) + 4) % 7

dateStringOf(civil, weekday) ==
  [weekday |-> WeekdayNames[weekday + 1],
   month   |-> MonthNames[civil.month],
   date    |-> civil.day,
   year    |-> civil.year]

toDateString(t) == dateStringOf(CivilFromDays(DayOf(t)), getDay(t))

\* new Date(dateString).getTime()
parseDateString(s) ==
  DaysFromCivil(s.year, MonthNumber[s.month], s.date) * TicksPerDay

\* a < b as strings
StringBefore(a, b) ==
  \/ Alphabetical[a.weekday] < Alphabetical[b.weekday]
  \/ /\ a.weekday = b.weekday
     /\ \/ Alphabetical[a.month] < Alphabetical[b.month]
        \/ /\ a.month = b.month
           /\ \/ a.date < b.date
              \/ a.date = b.date /\ a.year < b.year

RECURSIVE InsertByString(_, _)
InsertByString(sorted, s) ==
  IF sorted = <<>> THEN <<s>>
  ELSE IF StringBefore(s, Head(sorted))
       THEN <<s>> \o sorted
       ELSE <<Head(sorted)>> \o InsertByString(Tail(sorted), s)

\* strings.sort()
RECURSIVE SortStrings(_)
SortStrings(list) ==
  IF list = <<>> THEN <<>>
  ELSE InsertByString(SortStrings(SliceTo(list, Some(Len(list) - 1))), list[Len(list)])

\* [...new Set(list)]: the distinct members, first seen first
RECURSIVE Distinct(_)
Distinct(list) ==
  IF list = <<>> THEN <<>>
  ELSE IF \E k \in 1..(Len(list) - 1) : list[k] = list[Len(list)]
       THEN Distinct(SliceTo(list, Some(Len(list) - 1)))
       ELSE Append(Distinct(SliceTo(list, Some(Len(list) - 1))), list[Len(list)])

DateStrings(list) == [i \in 1..Len(list) |-> toDateString(list[i].timestamp)]

\* uniqueDates of calculateStreaks
uniqueDatesOf(messages) == SortStrings(Distinct(DateStrings(SortByTime(messages))))

\* dayDiff === 1 between two date strings
NextDay(prev, curr) == parseDateString(curr) - parseDateString(prev) = TicksPerDay

\* a plausible slip: the run that reaches the last date is never compared
\* with the longest one
RECURSIVE longestFromWithoutLastRun(_, _, _, _)
longestFromWithoutLastRun(uniqueDates, i, tempStreak, longestStreak) ==
  IF i > Len(uniqueDates) THEN longestStreak
  ELSE IF NextDay(uniqueDates[i - 1], uniqueDates[i])
       THEN longestFromWithoutLastRun(uniqueDates, i + 1, tempStreak + 1, longestStreak)
       ELSE longestFromWithoutLastRun(uniqueDates, i + 1, 1, Max(longestStreak, tempStreak))

\* the loop over uniqueDates from index i on (1-based), then the final max
RECURSIVE longestFrom(_, _, _, _)
longestFrom(uniqueDates, i, tempStreak, longestStreak) ==
  IF i > Len(uniqueDates) THEN Max(longestStreak, tempStreak)
  ELSE IF NextDay(uniqueDates[i - 1], uniqueDates[i])
       THEN longestFrom(uniqueDates, i + 1, tempStreak + 1, longestStreak)
       ELSE longestFrom(uniqueDates, i + 1, 1, Max(longestStreak, tempStreak))

\* the backwards loop from index i down to 1
RECURSIVE streakBack(_, _, _)
streakBack(uniqueDates, i, streak) ==
  IF i < 1 THEN streak
  ELSE IF NextDay(uniqueDates[i], uniqueDates[i + 1])
       THEN streakBack(uniqueDates, i - 1, streak + 1)
       ELSE streak

\* whole days from the last date string to today's; both are local midnights
daysSinceLastMessage(uniqueDates, t) ==
  parseDateString(toDateString(t)) - parseDateString(uniqueDates[Len(uniqueDates)])

currentStreakOf(uniqueDates, t) ==
  IF daysSinceLastMessage(uniqueDates, t) <= TicksPerDay
  THEN streakBack(uniqueDates, Len(uniqueDates) - 1, 1)
  ELSE 0

streaksOf(uniqueDates, t) ==
  [longestStreak |-> longestFrom(uniqueDates, 2, 1, 0),
   currentStreak |-> currentStreakOf(uniqueDates, t)]

calculateStreaks(messages, t) ==
  IF Len(messages) = 0 THEN [longestStreak |-> 0, currentStreak |-> 0]
  ELSE streaksOf(uniqueDatesOf(messages), t)

(***************************************************************************)
(* Queries.  Each takes the engine state st = [heap, cache] and the clock  *)
(* and yields the state after the call together with its outcome.  The     *)
(* local constants of a method are the parameters of the operators below.  *)
(***************************************************************************)
userStatsFrom(author, userMessages, sortedMessages, streaks, t) ==
  [author        |-> author,
   messageCount  |-> Len(userMessages),
   totalPoints   |-> SumPoints(userMessages),
   activityScore |-> calculateActivityScore(userMessages, t),
   firstMessage  |-> sortedMessages[1].timestamp,
   lastMessage   |-> sortedMessages[Len(sortedMessages)].timestamp,
   activeDays    |-> Cardinality(ActiveDates(userMessages)),
   longestStreak |-> streaks.longestStreak,
   currentStreak |-> streaks.currentStreak]

\* the statistics getUserStats derives from the author's messages
userStatsOf(author, userMessages, t) ==
  userStatsFrom(author, userMessages, SortByTime(userMessages),
                calculateStreaks(userMessages, t), t)

\* a plausible slip: zero-filled statistics for an author without messages
userOutcomeZeroFilled(author, userMessages, t) ==
  IF Len(userMessages) = 0
  THEN Ok([author |-> author, messageCount |-> 0, totalPoints |-> 0,
           activityScore |-> 0, firstMessage |-> 0, lastMessage |-> 0,
           activeDays |-> 0, longestStreak |-> 0, currentStreak |-> 0])
  ELSE Ok(userStatsOf(author, userMessages, t))

userOutcome(author, userMessages, t) ==
  IF Len(userMessages) = 0
  THEN Err("No messages found for user")
  ELSE Ok(userStatsOf(author, userMessages, t))

userStatsIn(fd, author, t) ==
  [st |-> fd.st, outcome |-> userOutcome(author, ByAuthor(fd.st.heap[fd.value], author), t)]

getUserStats(st, author, config, t) ==
  userStatsIn(getFilteredData(st, config, t), author, t)

rankingValue(userStats, rankingType) ==
  CASE rankingType = Some("message_points") -> userStats.totalPoints
    [] rankingType = Some("activity_score") -> userStats.activityScore
    [] OTHER -> userStats.messageCount

\* rank assignment; a plausible slip gives equal values the same rank
rankAtShared(sorted, index) ==
  1 + Cardinality({ j \in 1..Len(sorted) : sorted[j].value > sorted[index].value })

rankAt(sorted, index) == index

\* the total the percentages are taken of; a plausible slip leaves the last
\* entry out of the sum
rankingTotalShort(sorted) ==
  SumSeq([i \in 1..(Len(sorted) - 1) |-> sorted[i].value])

rankingTotal(sorted) ==
  SumSeq([i \in 1..Len(sorted) |-> sorted[i].value])

\* a percentage is kept as the exact fraction num / den
percentageOf(value, total) ==
  IF total > 0 THEN [num |-> value * 100, den |-> total] ELSE [num |-> 0, den |-> 1]

rankingValues(filteredData, users, config, t) ==
  [i \in 1..Len(users) |->
    [author |-> users[i],
     value  |-> rankingValue(userStatsOf(users[i], ByAuthor(filteredData, users[i]), t),
                             config.rankingType)]]

rankingEntries(sorted, total) ==
  [i \in 1..Len(sorted) |->
    [rank       |-> rankAt(sorted, i),
     author     |-> sorted[i].author,
     value      |-> sorted[i].value,
     percentage |-> percentageOf(sorted[i].value, total)]]

rankedAndSliced(sorted, limit) ==
  SliceTo(rankingEntries(sorted, rankingTotal(sorted)), limit)

\* the list getRankings computes from the filtered data it was handed
rankingsOf(filteredData, config, t) ==
  rankedAndSliced(
    SortByValueDesc(rankingValues(filteredData, Users(filteredData), config, t)),
    config.limit)

\* the tail of getCachedOrCompute: store the result unless computeFn threw
stored(st, key, outcome) ==
  [st |-> [st EXCEPT !.cache = storeOutcome(@, key, outcome)], outcome |-> outcome]

rankingsMiss(fd, config, t) ==
  stored(fd.st, getCacheKey("getRankings", config),
         Ok(rankingsOf(fd.st.heap[fd.value], config, t)))

getRankings(st, config, t) ==
  IF cacheHas(st.cache, getCacheKey("getRankings", config))
  THEN [st |-> st, outcome |-> Ok(st.cache[getCacheKey("getRankings", config)])]
  ELSE rankingsMiss(getFilteredData(st, config, t), config, t)

CountStatus(list, status) ==
  Cardinality({ i \in 1..Len(list) : list[i].message.status = status })

FirstAuthor(rankings) == IF Len(rankings) > 0 THEN Some(rankings[1].author) ELSE Null

\* filteredData.sort(...) for the date range: sorts the array it was handed
sortInPlace(heapNow, ref) == [heapNow EXCEPT ![ref] = SortByTime(@)]

overallStatsOf(filteredData, sortedData, byCount, byPoints) ==
  [totalMessages    |-> Len(filteredData),
   totalUsers       |-> Len(Users(filteredData)),
   totalPoints      |-> SumPoints(filteredData),
   dateRange        |-> [start |-> sortedData[1].timestamp,
                         end   |-> sortedData[Len(sortedData)].timestamp],
   statusCounts     |-> [s \in MessageStatuses |-> CountStatus(filteredData, s)],
   mostActiveUser   |-> FirstAuthor(byCount),
   mostValuableUser |-> FirstAuthor(byPoints)]

overallWithRankings(filteredData, byCount, byPoints, config) ==
  stored(byPoints.st, getCacheKey("getOverallStats", config),
         Ok(overallStatsOf(filteredData, SortByTime(filteredData),
                           byCount.outcome.value, byPoints.outcome.value)))

overallAfterSort(filteredData, byCount, config, t) ==
  overallWithRankings(
    filteredData, byCount,
    getRankings(byCount.st, [config EXCEPT !.rankingType = Some("message_points")], t),
    config)

overallMiss(fd, config, t) ==
  IF Len(fd.st.heap[fd.value]) = 0
  THEN stored(fd.st, getCacheKey("getOverallStats", config),
              Err("No data available for the specified time period"))
  ELSE overallAfterSort(
         fd.st.heap[fd.value],
         getRankings([fd.st EXCEPT !.heap = sortInPlace(@, fd.value)],
                     [config EXCEPT !.rankingType = Some("message_count")], t),
         config, t)

getOverallStats(st, config, t) ==
  IF cacheHas(st.cache, getCacheKey("getOverallStats", config))
  THEN [st |-> st, outcome |-> Ok(st.cache[getCacheKey("getOverallStats", config)])]
  ELSE overallMiss(getFilteredData(st, config, t), config, t)

dailyByDateOf(filteredData, dates) ==
  [d \in dates |->
    Cardinality({ i \in 1..Len(filteredData) : DayOf(filteredData[i].timestamp) = d })]

heatmapIn(fd) ==
  [st |-> fd.st,
   outcome |-> Ok([dailyByDate |->
                    dailyByDateOf(fd.st.heap[fd.value], ActiveDates(fd.st.heap[fd.value]))])]

\* getActivityHeatmap: the histogram by calendar date of the filtered data
getActivityHeatmap(st, config, t) == heatmapIn(getFilteredData(st, config, t))

(***************************************************************************)
(* Engine operations as actions.  call records the operation issued and    *)
(* the clock at that moment, ret its outcome, filtered the list that       *)
(* getFilteredData handed to the operation (Null when the operation was    *)
(* answered from its own cache entry and never asked for it).              *)
(***************************************************************************)
Now0 == DaysFromCivil(2025, 3, 31) * TicksPerDay + 1     \* 2025-03-31 12:00

engineState == [heap |-> heap, cache |-> cache]

HandedOf(fd) == Some([list |-> fd.st.heap[fd.value], computed |-> fd.computed])

Handed(config) == HandedOf(getFilteredData(engineState, config, now))

Returned(r, op, author, config, handed) ==
  /\ heap' = r.st.heap
  /\ cache' = r.st.cache
  /\ ret' = Some(r.outcome)
  /\ call' = Some([op |-> op, author |-> author, config |-> config, at |-> now])
  /\ filtered' = handed
  /\ calls' = calls + 1
  /\ UNCHANGED <<data0, now, scorerVars, parserVars, hookVars>>

GetUserStats(author, config) ==
  Returned(getUserStats(engineState, author, config, now),
           "getUserStats", Some(author), config, Handed(config))

GetRankings(config) ==
  Returned(getRankings(engineState, config, now),
           "getRankings", Null, config,
           IF cacheHas(cache, getCacheKey("getRankings", config))
           THEN Null ELSE Handed(config))

GetOverallStats(config) ==
  Returned(getOverallStats(engineState, config, now),
           "getOverallStats", Null, config,
           IF cacheHas(cache, getCacheKey("getOverallStats", config))
           THEN Null ELSE Handed(config))

GetActivityHeatmap(config) ==
  Returned(getActivityHeatmap(engineState, config, now),
           "getActivityHeatmap", Null, config, Handed(config))

\* this.cache.clear(); the arrays only the cache referred to are gone with it
ClearCache ==
  /\ cache' = <<>>
  /\ heap' = <<heap[DataRef]>>
  /\ ret' = Null
  /\ call' = Some([op |-> "clearCache", author |-> Null, config |-> NoConfig, at |-> now])
  /\ filtered' = Null
  /\ calls' = calls + 1
  /\ UNCHANGED <<data0, now, scorerVars, parserVars, hookVars>>

\* the host clock advances between two operations
Tick ==
  /\ now' = now + 1
  /\ UNCHANGED <<data0, heap, cache, call, ret, filtered, calls, scorerVars, parserVars, hookVars>>

(***************************************************************************)
(* Message collections the engine is constructed with                      *)
(***************************************************************************)
TextActive ==
  [type |-> "text", status |-> "active", content |-> Some(5), call |-> Null, poll |-> Null]

TextDeleted ==
  [type |-> "text", status |-> "deleted", content |-> Null, call |-> Null, poll |-> Null]

IdleMessage == [author |-> "a", timestamp |-> 0, message |-> TextActive]

Messages(authors, times, kinds) ==
  [author : authors, timestamp : times, message : kinds]

RECURSIVE SeqsUpTo(_, _)
SeqsUpTo(S, n) ==
  IF n = 0 THEN {<<>>}
  ELSE LET shorter == SeqsUpTo(S, n - 1)
       IN  shorter \cup { Append(q, x) : q \in { r \in shorter : Len(r) = n - 1 }, x \in S }

EngineInit(collections) ==
  /\ data0 \in collections
  /\ heap = <<data0>>
  /\ cache = <<>>
  /\ now = Now0
  /\ call = Null
  /\ ret = Null
  /\ filtered = Null
  /\ calls = 0
  /\ msg = IdleMessage
  /\ points = Null
  /\ parserIdle
  /\ hookIdle

Config(timePeriod, bounds, includeDeleted, rankingType, limit) ==
  [timePeriod |-> timePeriod, customStartDate |-> bounds[1], customEndDate |-> bounds[2],
   includeDeleted |-> includeDeleted, rankingType |-> rankingType, limit |-> limit]

NoBounds == <<Null, Null>>

(***************************************************************************)
(* Spec: one engine, a bounded number of operations on it in any order,    *)
(* at a fixed clock.                                                       *)
(***************************************************************************)
MaxCalls == 2
MaxMsgs == 2

Authors == {"a", "b"}
SpecTimes == {Now0 - TicksPerDay, Now0}
SpecBounds == <<Some(Now0 - 1), Some(Now0)>>

\* the whole history with and without its deleted messages, and a custom
\* window that leaves the older messages out
SpecConfigs ==
  { Config("total", NoBounds, d, Null, Null) : d \in {Null, Some(FALSE)} } \cup
  { Config("custom", SpecBounds, Null, Null, Null) }

SpecRankingConfigs ==
  { [c EXCEPT !.rankingType = Some("message_count")] : c \in SpecConfigs }

Init == EngineInit(SeqsUpTo(Messages(Authors, SpecTimes, {TextActive, TextDeleted}), MaxMsgs))

SpecGetUserStats ==
  /\ calls < MaxCalls
  /\ \E a \in Authors, c \in SpecConfigs : GetUserStats(a, c)

SpecGetRankings ==
  /\ calls < MaxCalls
  /\ \E c \in SpecRankingConfigs : GetRankings(c)

SpecGetOverallStats ==
  /\ calls < MaxCalls
  /\ \E c \in SpecConfigs : GetOverallStats(c)

SpecClearCache ==
  /\ calls < MaxCalls
  /\ ClearCache

Next ==
  \/ SpecGetUserStats
  \/ SpecGetRankings
  \/ SpecGetOverallStats
  \/ SpecClearCache

Spec == Init /\ [][Next]_vars

(***************************************************************************)
(* FilterSpec: one query on a fresh engine, over collections whose         *)
(* timestamps sit on the edges of every time-relative window, before or    *)
(* after the clock has advanced.                                           *)
(***************************************************************************)
MaxFilterMsgs == 2
MaxTicks == 1

At(y, m, d, tick) == DaysFromCivil(y, m, d) * TicksPerDay + tick

\* just after Now0, and the first instant of the last day, week, month and
\* year as seen from Now0
FilterTimes ==
  {Now0 + 1, At(2025, 3, 30, 1), At(2025, 3, 24, 1), At(2025, 3, 3, 1), At(2024, 3, 31, 1)}

FilterBounds ==
  { <<Some(At(2025, 3, 24, 1)), Some(At(2025, 3, 30, 1))>>,
    <<Null, Some(At(2025, 3, 24, 1))>>,
    <<Some(At(2025, 3, 30, 1)), Null>> }

IncludeDeletedChoices == {Null, Some(TRUE), Some(FALSE)}

FilterConfigs ==
  { Config(p, NoBounds, d, Null, Null) :
      p \in {"total", "last_year", "last_month", "last_week", "last_day"},
      d \in IncludeDeletedChoices } \cup
  { Config("custom", b, d, Null, Null) : b \in FilterBounds, d \in IncludeDeletedChoices }

FilterInit ==
  EngineInit(SeqsUpTo(Messages(Authors, FilterTimes, {TextActive, TextDeleted}), MaxFilterMsgs))

FilterQuery ==
  /\ calls < 1
  /\ \E c \in FilterConfigs : GetActivityHeatmap(c)

FilterTick ==
  /\ now < Now0 + MaxTicks
  /\ Tick

FilterNext ==
  \/ FilterQuery
  \/ FilterTick

FilterSpec == FilterInit /\ [][FilterNext]_vars

(***************************************************************************)
(* RankSpec: one getRankings call on a fresh engine, for every ranking     *)
(* type, with and without deleted messages and a limit, over collections   *)
(* with up to three authors, ties, and point totals that are positive,     *)
(* zero and negative.                                                      *)
(***************************************************************************)
MaxRankMsgs == 4

RankAuthors == {"a", "b", "c"}

\* a contact card with a note of 50 characters: 0.5 + 50 * 0.002 = 0.6
\* points, which three deleted messages cancel
ContactNoted ==
  [type |-> "contact", status |-> "active", content |-> Some(50), call |-> Null, poll |-> Null]

\* messages sent at the clock by every author, and a day before it by one
RankMessages ==
  Messages(RankAuthors, {Now0}, {ContactNoted, TextDeleted}) \cup
  Messages({"a"}, {Now0 - TicksPerDay}, {ContactNoted, TextDeleted})

RankConfigs ==
  { Config("total", NoBounds, d, Some(r), l) :
      d \in {Null, Some(FALSE)},
      r \in {"message_count", "message_points", "activity_score"},
      l \in {Null, Some(1)} }

RankInit == EngineInit(SeqsUpTo(RankMessages, MaxRankMsgs))

RankQuery ==
  /\ calls < 1
  /\ \E c \in RankConfigs : GetRankings(c)

RankNext == RankQuery

RankSpec == RankInit /\ [][RankNext]_vars

(***************************************************************************)
(* Properties of the stats engine                                          *)
(***************************************************************************)
Called(op) == ~IsNull(call) /\ Val(call).op = op

\* what a freshly constructed engine over the collection returns
FreshRankings(config, t) ==
  getRankings([heap |-> <<data0>>, cache |-> <<>>], config, t).outcome.value

\* C3: the result of getRankings is the same whatever queries were issued on
\* the engine before it, and equals what a freshly constructed engine over
\* the same collection returns at the same clock
C3_Deterministic ==
  Called("getRankings") =>
    Val(ret).value = FreshRankings(Val(call).config, Val(call).at)

C4_Step ==
  (calls' = calls + 1) =>
    /\ Val(call').op = "clearCache" => DOMAIN cache' = {}
    /\ Val(call').op # "clearCache" =>
         \A k \in DOMAIN cache : k \in DOMAIN cache' /\ cache'[k] = cache[k]
    /\ ( /\ Val(call').op \in {"getRankings", "getOverallStats"}
         /\ getCacheKey(Val(call').op, Val(call').config) \in DOMAIN cache )
       => /\ ret' = Some(Ok(cache[getCacheKey(Val(call').op, Val(call').config)]))
          /\ cache' = cache
          /\ heap' = heap
    /\ ( /\ Val(call').op \in {"getUserStats", "getActivityHeatmap"}
         /\ getCacheKey("getFilteredData", Val(call').config) \in DOMAIN cache )
       => /\ Val(filtered').list = heap[cache[getCacheKey("getFilteredData", Val(call').config)]]
          /\ cache' = cache
          /\ heap' = heap

\* C4: a memoized operation whose key is cached returns the stored value
\* without recomputing (no entry added, no array built or reordered);
\* clearCache empties the cache; no other operation removes or replaces an
\* entry
C4_CacheDiscipline == [][C4_Step]_vars

\* a second operation was answered from the entry the first one stored
C4_Witness ==
  /\ Called("getRankings")
  /\ calls = 2
  /\ IsNull(filtered)
  /\ getCacheKey("getRankings", Val(call).config) \in DOMAIN cache
  /\ Len(Val(ret).value) = 2

\* C5: the rank fields of a ranking are 1, 2, ..., n in list order, also
\* when several authors have equal values
C5_RanksConsecutive ==
  Called("getRankings") =>
    \A i \in 1..Len(Val(ret).value) : Val(ret).value[i].rank = i

\* a ranking of three authors, the first two with equal values
C5_Witness ==
  /\ Called("getRankings")
  /\ Len(Val(ret).value) = 3
  /\ Val(ret).value[1].value = Val(ret).value[2].value
  /\ Val(ret).value[2].value > Val(ret).value[3].value

EntryValues(entries) == [i \in 1..Len(entries) |-> entries[i].value]
EntryNums(entries) == [i \in 1..Len(entries) |-> entries[i].percentage.num]

\* C6: without a limit the percentages (fractions num / den) sum to 100 when
\* the sum of the values is positive, and are all 0 when it is not; for every
\* ranking type
C6_PercentagesSum ==
  (Called("getRankings") /\ IsNull(Val(call).config.limit)) =>
    /\ SumSeq(EntryValues(Val(ret).value)) > 0 =>
         /\ \A i \in 1..Len(Val(ret).value) :
              Val(ret).value[i].percentage.den = SumSeq(EntryValues(Val(ret).value))
         /\ SumSeq(EntryNums(Val(ret).value)) = 100 * SumSeq(EntryValues(Val(ret).value))
    /\ SumSeq(EntryValues(Val(ret).value)) <= 0 =>
         \A i \in 1..Len(Val(ret).value) : Val(ret).value[i].percentage.num = 0

\* an unlimited ranking by points of three authors, one of them with a
\* negative value, the total being positive
C6_Witness ==
  /\ Called("getRankings")
  /\ IsNull(Val(call).config.limit)
  /\ Val(call).config.rankingType = Some("message_points")
  /\ Len(Val(ret).value) = 3
  /\ Val(ret).value[3].value < 0
  /\ SumSeq(EntryValues(Val(ret).value)) > 0

\* C7: getOverallStats on an empty filtered set fails, on the first and on
\* every repeated call, and no result for such a window is ever cached or
\* returned
C7_EmptyWindowFails ==
  /\ ( /\ Called("getOverallStats")
       /\ ~IsNull(filtered)
       /\ Val(filtered).list = <<>> ) => ~Val(ret).ok
  /\ ( Called("getOverallStats") /\ Val(ret).ok ) => Val(ret).value.totalMessages > 0
  /\ \A k \in DOMAIN cache :
       k[1] = "getOverallStats" =>
         /\ getCacheKey("getFilteredData", k[2]) \in DOMAIN cache
         /\ heap[cache[getCacheKey("getFilteredData", k[2])]] # <<>>

\* a repeated query on a custom window without messages has failed again
C7_Witness ==
  /\ Called("getOverallStats")
  /\ calls = 2
  /\ Val(call).config.timePeriod = "custom"
  /\ ~IsNull(filtered)
  /\ ~Val(filtered).computed
  /\ Val(filtered).list = <<>>
  /\ data0 # <<>>
  /\ ~Val(ret).ok

\* C8: getUserStats fails when the author has no message in the window the
\* config selects, and never returns statistics of zero messages
C8_AbsentAuthorFails ==
  Called("getUserStats") =>
    /\ ByAuthor(Val(filtered).list, Val(Val(call).author)) = <<>> => ~Val(ret).ok
    /\ Val(ret).ok => Val(ret).value.messageCount >= 1

\* the author has a message in the collection, none in the custom window,
\* and the query failed
C8_Witness ==
  /\ Called("getUserStats")
  /\ Val(call).config.timePeriod = "custom"
  /\ ByAuthor(data0, Val(Val(call).author)) # <<>>
  /\ Val(filtered).list # <<>>
  /\ ByAuthor(Val(filtered).list, Val(Val(call).author)) = <<>>
  /\ ~Val(ret).ok

(***************************************************************************)
(* Properties of getFilteredData                                           *)
(***************************************************************************)
TimeRelative == {"last_year", "last_month", "last_week", "last_day"}

Computed == ~IsNull(filtered) /\ Val(filtered).computed

KeptDeleted(m, config) ==
  m.message.status # "deleted" \/ includeDeletedOf(config)

\* the time bound as the claim C9 states it
ClaimedInWindow(m, config, t) ==
  CASE config.timePeriod \in TimeRelative ->
         /\ Val(startOfWindow(config.timePeriod, t)) <= m.timestamp
         /\ m.timestamp <= t
    [] config.timePeriod = "custom" ->
         /\ IsNull(config.customStartDate) \/ Val(config.customStartDate) <= m.timestamp
         /\ IsNull(config.customEndDate) \/ m.timestamp <= Val(config.customEndDate)
    [] OTHER -> TRUE

ClaimedSelection(list, config, t) ==
  LET Keep(m) == ClaimedInWindow(m, config, t) /\ KeptDeleted(m, config)
  IN  SelectSeq(list, Keep)

\* C9: for a time-relative period getFilteredData returns exactly the
\* messages with now - period <= t <= now, for custom those with
\* start <= t <= end, for total it applies no time bound
C9_WindowBounds ==
  Computed =>
    Val(filtered).list = ClaimedSelection(heap[DataRef], Val(call).config, Val(call).at)

ClaimedNotDeleted(list, config, t) ==
  LET Keep(m) == ClaimedInWindow(m, config, t) /\ m.message.status # "deleted"
  IN  SelectSeq(list, Keep)

ClaimedDeleted(list, config, t) ==
  LET Keep(m) == ClaimedInWindow(m, config, t) /\ m.message.status = "deleted"
  IN  SelectSeq(list, Keep)

\* C10: with includeDeleted = false getFilteredData returns exactly the
\* messages inside the window's time bound whose status is not deleted, for
\* every period; with includeDeleted true or omitted the deleted messages
\* inside the window are kept
C10_DeletedExcluded ==
  Computed =>
    /\ Val(call).config.includeDeleted = Some(FALSE) =>
         Val(filtered).list =
           ClaimedNotDeleted(heap[DataRef], Val(call).config, Val(call).at)
    /\ Val(call).config.includeDeleted # Some(FALSE) =>
         \A i \in 1..Len(ClaimedDeleted(heap[DataRef], Val(call).config, Val(call).at)) :
           \E j \in 1..Len(Val(filtered).list) :
             Val(filtered).list[j] =
               ClaimedDeleted(heap[DataRef], Val(call).config, Val(call).at)[i]

(***************************************************************************)
(* Filter.where by identity.  A message object is identified by its        *)
(* position in the array the Filter was constructed with; two messages of  *)
(* equal content at different positions are different objects.             *)
(***************************************************************************)
RECURSIVE RefsFrom(_, _, _)
RefsFrom(data, f, i) ==
  IF i > Len(data) THEN <<>>
  ELSE IF evaluateFilter(data[i], f)
       THEN <<i>> \o RefsFrom(data, f, i + 1)
       ELSE RefsFrom(data, f, i + 1)

\* a plausible slip: only the first member of an AND list is evaluated
whereRefsFirstOfAnd(data, f) ==
  RefsFrom(data, IF ~IsNull(f.AND) THEN Val(f.AND)[1] ELSE f, 1)

\* the positions of the messages this.data.filter(...) keeps, in array order
whereRefs(data, f) == RefsFrom(data, f, 1)

(***************************************************************************)
(* WhereSpec: one Filter.where({ AND: [A, B] }) call on a Filter over a    *)
(* bounded collection, A and B drawn from field predicates on the author,  *)
(* the timestamp and the content fields, alone and combined.               *)
(***************************************************************************)
MaxWhereMsgs == 2

WhereTimes == {Now0 - TicksPerDay, Now0 - 1, Now0}

Op(name, v) ==
  CASE name = "eq"  -> [NoOperator EXCEPT !.eq = Some(v)]
    [] name = "neq" -> [NoOperator EXCEPT !.neq = Some(v)]
    [] name = "gt"  -> [NoOperator EXCEPT !.gt = Some(v)]
    [] name = "gte" -> [NoOperator EXCEPT !.gte = Some(v)]
    [] name = "lt"  -> [NoOperator EXCEPT !.lt = Some(v)]
    [] OTHER        -> [NoOperator EXCEPT !.lte = Some(v)]

FieldPredicates ==
  { [NoFilter EXCEPT !.author = Some(Op("eq", "a"))],
    [NoFilter EXCEPT !.author = Some(Op("neq", "a"))],
    [NoFilter EXCEPT !.timestamp = Some(Op("gte", Now0 - 1))],
    [NoFilter EXCEPT !.timestamp = Some(Op("lt", Now0))],
    [NoFilter EXCEPT !.timestamp = Some([NoOperator EXCEPT !.gt = Some(Now0 - TicksPerDay),
                                                           !.lte = Some(Now0 - 1)])],
    [NoFilter EXCEPT !.message = Some([NoContentFilter EXCEPT !.status = Some(Op("neq", "deleted"))])],
    [NoFilter EXCEPT !.message = Some([NoContentFilter EXCEPT !.status = Some(Op("eq", "deleted"))])],
    [NoFilter EXCEPT !.message = Some([NoContentFilter EXCEPT !.content = Some(Op("neq", Null))])],
    [NoFilter EXCEPT !.author = Some(Op("eq", "b")),
                     !.message = Some([NoContentFilter EXCEPT !.type = Some(Op("eq", "text"))])],
    NoFilter }

AndOf(A, B) == [NoFilter EXCEPT !.AND = Some(<<A, B>>)]

WhereInit ==
  EngineInit(SeqsUpTo(Messages(Authors, WhereTimes, {TextActive, TextDeleted}), MaxWhereMsgs))

\* new Filter(data).where({ AND: [A, B] })
WhereAnd(A, B) ==
  /\ calls < 1
  /\ ret' = Some(Ok(whereRefs(data0, AndOf(A, B))))
  /\ call' = Some([op |-> "where", author |-> Null, config |-> <<A, B>>, at |-> now])
  /\ calls' = calls + 1
  /\ UNCHANGED <<data0, heap, cache, now, filtered, scorerVars, parserVars, hookVars>>

WhereQuery == \E A \in FieldPredicates, B \in FieldPredicates : WhereAnd(A, B)

WhereNext == WhereQuery

WhereSpec == WhereInit /\ [][WhereNext]_vars

InSeq(x, s) == \E k \in 1..Len(s) : s[k] = x

\* the positions that are in both lists, in increasing order
RECURSIVE InBoth(_, _, _, _)
InBoth(left, right, i, n) ==
  IF i > n THEN <<>>
  ELSE IF InSeq(i, left) /\ InSeq(i, right)
       THEN <<i>> \o InBoth(left, right, i + 1, n)
       ELSE InBoth(left, right, i + 1, n)

\* C11: Filter.where({ AND: [A, B] }) returns exactly the messages, by
\* identity and in the order of the array, that are in both Filter.where(A)
\* and Filter.where(B), for field predicates A and B
C11_AndIsIntersection ==
  Called("where") =>
    Val(ret).value =
      InBoth(whereRefs(data0, Val(call).config[1]),
             whereRefs(data0, Val(call).config[2]), 1, Len(data0))

\* the first conjunct keeps both messages, the second only the later one,
\* and the conjunction returned that one
C11_Witness ==
  /\ Called("where")
  /\ Len(data0) = 2
  /\ Len(whereRefs(data0, Val(call).config[1])) = 2
  /\ whereRefs(data0, Val(call).config[2]) = <<2>>
  /\ Val(ret).value = <<2>>

(***************************************************************************)
(* StreakSpec: getUserStats for one author on a fresh engine, the author's *)
(* messages falling on any of the seven calendar dates that end today, at  *)
(* either half of the day, several on one date or none.                    *)
(***************************************************************************)
MaxStreakMsgs == 3

DaysBack == 6

StreakTimes ==
  { (DayOf(Now0) - d) * TicksPerDay + h : d \in 0..DaysBack, h \in 0..(TicksPerDay - 1) }

StreakInit ==
  EngineInit(SeqsUpTo(Messages({"a"}, StreakTimes, {TextActive}), MaxStreakMsgs))

StreakQuery ==
  /\ calls < 1
  /\ GetUserStats("a", Config("total", NoBounds, Null, Null, Null))

StreakNext == StreakQuery

StreakSpec == StreakInit /\ [][StreakNext]_vars

\* the number of consecutive calendar dates of the set that start at day d
RECURSIVE RunFrom(_, _)
RunFrom(days, d) == IF d + 1 \in days THEN 1 + RunFrom(days, d + 1) ELSE 1

\* the number of consecutive calendar dates of the set that end at day d
RECURSIVE RunUpTo(_, _)
RunUpTo(days, d) == IF d - 1 \in days THEN 1 + RunUpTo(days, d - 1) ELSE 1

LongestRun(days) ==
  CHOOSE n \in 1..Cardinality(days) :
    /\ \E d \in days : RunFrom(days, d) = n
    /\ \A d \in days : RunFrom(days, d) <= n

LastDay(days) == CHOOSE d \in days : \A e \in days : e <= d

\* C12: longestStreak is the length of the longest run of consecutive
\* calendar dates among the author's distinct active dates, whatever the
\* weekdays, the times of day and the number of messages on each date
C12_LongestStreak ==
  (Called("getUserStats") /\ Val(ret).ok) =>
    Val(ret).value.longestStreak = LongestRun(ActiveDates(data0))

\* C13: currentStreak is 0 when the most recent active date is more than one
\* day before today, and otherwise the length of the run of consecutive
\* dates that ends at the most recent active date
C13_CurrentStreak ==
  (Called("getUserStats") /\ Val(ret).ok) =>
    Val(ret).value.currentStreak =
      IF DayOf(Val(call).at) - LastDay(ActiveDates(data0)) > 1 THEN 0
      ELSE RunUpTo(ActiveDates(data0), LastDay(ActiveDates(data0)))

(***************************************************************************)
(* checkActivity.  Weekly values are in the unit of the ranking type       *)
(* (messages, 1/Scale points, 1/ActivityScale score); an average is kept   *)
(* as the exact fraction num / den.                                        *)
(***************************************************************************)
RankingTypes == {"message_count", "message_points", "activity_score"}

UnitOf(rankingType) ==
  CASE rankingType = "message_points" -> Scale
    [] rankingType = "activity_score" -> ActivityScale
    [] OTHER -> 1

defaultThresholds(rankingType) ==
  CASE rankingType = "activity_score" -> <<50, 30, 15, 5>>
    [] rankingType = "message_points" -> <<60, 35, 18, 6>>
    [] OTHER -> <<35, 20, 10, 3>>

\* thresholds?.[rankingType] || defaultThresholds[rankingType]
usedThresholdsOf(rankingType, thresholds) ==
  IF IsNull(thresholds) THEN defaultThresholds(rankingType) ELSE Val(thresholds)

weights == <<1, 2, 3, 4>>

\* the range pushed in iteration i of the loop, i = 0 for the newest week
weekRangeAt(t, i) ==
  [start |-> setDate(setDate(t, getDate(t) - 7 * i), getDate(setDate(t, getDate(t) - 7 * i)) - 6),
   end   |-> setDate(t, getDate(t) - 7 * i)]

\* weekRanges after the four unshift calls: oldest week first
weekRanges(t) == <<weekRangeAt(t, 3), weekRangeAt(t, 2), weekRangeAt(t, 1), weekRangeAt(t, 0)>>

weekConfig(range, rankingType) ==
  Config("custom", <<Some(range.start), Some(range.end)>>, Null, Some(rankingType), Null)

\* the getRankings calls of the loop over the weeks from index i on: the
\* engine state after them and the rankings obtained, oldest week first
RECURSIVE weekRankings(_, _, _, _, _)
weekRankingsAfter(r, rankingType, t, i, byWeek) ==
  weekRankings(r.st, rankingType, t, i + 1, Append(byWeek, r.outcome.value))

weekRankings(st, rankingType, t, i, byWeek) ==
  IF i > 4 THEN [st |-> st, byWeek |-> byWeek]
  ELSE weekRankingsAfter(getRankings(st, weekConfig(weekRanges(t)[i], rankingType), t),
                         rankingType, t, i, byWeek)

\* rankings.find((r) => r.author === user), kept when entry.value > 0
weekDataOf(rankings, user) ==
  IF \E k \in 1..Len(rankings) : rankings[k].author = user /\ rankings[k].value > 0
  THEN [rank  |-> rankings[CHOOSE k \in 1..Len(rankings) : rankings[k].author = user].rank,
        value |-> rankings[CHOOSE k \in 1..Len(rankings) : rankings[k].author = user].value]
  ELSE [rank |-> 0, value |-> 0]

weeklyDataOf(byWeek, user) == [i \in 1..4 |-> weekDataOf(byWeek[i], user)]

weightedValueSumOf(weeklyData) ==
  SumSeq([i \in 1..4 |-> IF weeklyData[i].value > 0 THEN weeklyData[i].value * weights[i] ELSE 0])

validWeeksOf(weeklyData) ==
  SumSeq([i \in 1..4 |-> IF weeklyData[i].value > 0 THEN weights[i] ELSE 0])

weightedAverageOf(weeklyData) ==
  IF validWeeksOf(weeklyData) > 0
  THEN [num |-> weightedValueSumOf(weeklyData), den |-> validWeeksOf(weeklyData)]
  ELSE [num |-> 0, den |-> 1]

averageValueOf(weeklyData) ==
  [num |-> SumSeq([i \in 1..4 |-> weeklyData[i].value]), den |-> 4]

userResultFrom(weeklyData, user) ==
  [author |-> user,
   averageValue |-> averageValueOf(weeklyData),
   weeklyBreakdown |-> weeklyData,
   weightedAverageRank |-> weightedAverageOf(weeklyData)]

userResultOf(byWeek, user) == userResultFrom(weeklyDataOf(byWeek, user), user)

\* a >= b for fractions with positive denominators
FracGeq(a, b) == a.num * b.den >= b.num * a.den

\* userResults.sort((a, b) => b.weightedAverageRank - a.weightedAverageRank)
RECURSIVE InsertByAverage(_, _)
InsertByAverage(sorted, r) ==
  IF sorted = <<>> THEN <<r>>
  ELSE IF FracGeq(Head(sorted).weightedAverageRank, r.weightedAverageRank)
       THEN <<Head(sorted)>> \o InsertByAverage(Tail(sorted), r)
       ELSE <<r>> \o sorted

RECURSIVE SortByAverageDesc(_)
SortByAverageDesc(list) ==
  IF list = <<>> THEN <<>>
  ELSE InsertByAverage(SortByAverageDesc(SliceTo(list, Some(Len(list) - 1))), list[Len(list)])

\* v >= usedThresholds[k], the threshold given in whole units
AtLeast(v, threshold, unit) == v.num >= threshold * unit * v.den

\* a plausible slip: the thresholds read from the lowest one up
categoryOfLowestFirst(v, usedThresholds, unit) ==
  IF AtLeast(v, usedThresholds[4], unit) THEN "Not Active"
  ELSE "Red Zone"

categoryOf(v, usedThresholds, unit) ==
  IF AtLeast(v, usedThresholds[1], unit) THEN "Super Active"
  ELSE IF AtLeast(v, usedThresholds[2], unit) THEN "Active"
  ELSE IF AtLeast(v, usedThresholds[3], unit) THEN "Moderate"
  ELSE IF AtLeast(v, usedThresholds[4], unit) THEN "Not Active"
  ELSE "Red Zone"

withCategories(userResults, usedThresholds, unit) ==
  [k \in 1..Len(userResults) |->
     [author |-> userResults[k].author,
      category |-> categoryOf(userResults[k].weightedAverageRank, usedThresholds, unit),
      averageValue |-> userResults[k].averageValue,
      weeklyBreakdown |-> userResults[k].weeklyBreakdown,
      weightedAverageRank |-> userResults[k].weightedAverageRank]]

userResultsOf(byWeek, allUsers) ==
  [k \in 1..Len(allUsers) |-> userResultOf(byWeek, allUsers[k])]

activityOf(weeks, allUsers, usedThresholds, unit) ==
  [st |-> weeks.st,
   outcome |-> Ok(withCategories(SortByAverageDesc(userResultsOf(weeks.byWeek, allUsers)),
                                 usedThresholds, unit))]

checkActivity(st, rankingType, thresholds, t) ==
  IF Users(st.heap[DataRef]) = <<>>
  THEN [st |-> st, outcome |-> Ok(<<>>)]
  ELSE activityOf(weekRankings(st, rankingType, t, 1, <<>>), Users(st.heap[DataRef]),
                  usedThresholdsOf(rankingType, thresholds), UnitOf(rankingType))

CheckActivity(rankingType, thresholds) ==
  Returned(checkActivity(engineState, rankingType, thresholds, now),
           "checkActivity", Null,
           [rankingType |-> rankingType, thresholds |-> thresholds], Null)

(***************************************************************************)
(* ActivitySpec: one checkActivity call on a fresh engine, for every       *)
(* ranking type, with the default thresholds or a caller's, over           *)
(* collections whose messages sit in the four weekly ranges, on their      *)
(* edges and between them.                                                 *)
(***************************************************************************)
MaxActivityMsgs == 2

\* half days before the clock: now, the day between the two newest ranges,
\* the start of the range before the newest, and the start of the oldest
ActivityAges == {0, 13, 26, 54}

ActivityTimes == { Now0 - a : a \in ActivityAges }

ActivityThresholds == {Null, Some(<<3, 2, 1, 1>>)}

ActivityInit ==
  EngineInit(SeqsUpTo(Messages(Authors, ActivityTimes, {TextActive, TextDeleted}),
                      MaxActivityMsgs))

ActivityQuery ==
  /\ calls < 1
  /\ \E r \in RankingTypes, th \in ActivityThresholds : CheckActivity(r, th)

ActivityNext == ActivityQuery

ActivitySpec == ActivityInit /\ [][ActivityNext]_vars

DaysOf(n) == n * TicksPerDay

\* C14: the four weekly ranges are ordered oldest first, do not overlap, each
\* spans 7 days (both ends included, so 7 days less one instant at the
\* least), the newest ends at now, and the weights are 1, 2, 3, 4
C14_WeeklyWindows ==
  Called("checkActivity") =>
    /\ Len(weekRanges(Val(call).at)) = 4
    /\ weekRanges(Val(call).at)[4].end = Val(call).at
    /\ \A i \in 1..3 : weekRanges(Val(call).at)[i].end < weekRanges(Val(call).at)[i + 1].start
    /\ \A i \in 1..4 :
         weekRanges(Val(call).at)[i].end - weekRanges(Val(call).at)[i].start
           \in {DaysOf(7) - 1, DaysOf(7)}
    /\ weights = <<1, 2, 3, 4>>

\* the value the ranking of a week holds for an author, 0 when absent
RankedValue(rankings, user) ==
  IF \E k \in 1..Len(rankings) : rankings[k].author = user
  THEN rankings[CHOOSE k \in 1..Len(rankings) : rankings[k].author = user].value
  ELSE 0

\* getRankings restricted to week i, asked of a fresh engine over the
\* collection
WeekValue(user, i, rankingType, t) ==
  RankedValue(FreshRankings(weekConfig(weekRanges(t)[i], rankingType), t), user)

ActiveWeights(user, rankingType, t) ==
  SumSeq([i \in 1..4 |-> IF WeekValue(user, i, rankingType, t) > 0 THEN weights[i] ELSE 0])

WeightedValues(user, rankingType, t) ==
  SumSeq([i \in 1..4 |-> WeekValue(user, i, rankingType, t) * weights[i]])

\* C15: the weighted average of every author is the sum over the four weeks
\* of week value times week weight, divided by the sum of the weights of the
\* weeks with value > 0, and 0 when no week has value > 0
C15_WeightedAverage ==
  Called("checkActivity") =>
    \A k \in 1..Len(Val(ret).value) :
      IF ActiveWeights(Val(ret).value[k].author, Val(call).config.rankingType, Val(call).at) = 0
      THEN Val(ret).value[k].weightedAverageRank.num = 0
      ELSE Val(ret).value[k].weightedAverageRank.num
             * ActiveWeights(Val(ret).value[k].author, Val(call).config.rankingType, Val(call).at)
           = WeightedValues(Val(ret).value[k].author, Val(call).config.rankingType, Val(call).at)
             * Val(ret).value[k].weightedAverageRank.den

ClaimedCategory(v, th, unit) ==
  CASE v.num >= th[1] * unit * v.den -> "Super Active"
    [] v.num < th[1] * unit * v.den /\ v.num >= th[2] * unit * v.den -> "Active"
    [] v.num < th[2] * unit * v.den /\ v.num >= th[3] * unit * v.den /\ v.num < th[1] * unit * v.den
         -> "Moderate"
    [] OTHER ->
         IF v.num >= th[4] * unit * v.den THEN "Not Active" ELSE "Red Zone"

DigitChars == <<"0", "1", "2", "3", "4", "5", "6", "7", "8", "9">>

IsDigit(c) == \E i \in 1..10 : DigitChars[i] = c

\* the characters trim() removes, of those the texts hold
IsWhiteSpace(c) == c \in {" ", "\t", "\r", "\n"}

RECURSIVE trimStart(_)
trimStart(s) ==
  IF s # <<>> /\ IsWhiteSpace(Head(s)) THEN trimStart(Tail(s)) ELSE s

RECURSIVE trimEnd(_)
trimEnd(s) ==
  IF s # <<>> /\ IsWhiteSpace(s[Len(s)]) THEN trimEnd(SubSeq(s, 1, Len(s) - 1)) ELSE s

trim(s) == trimEnd(trimStart(s))

\* sep occurs in s at position k
OccursAt(s, sep, k) ==
  k + Len(sep) - 1 <= Len(s) /\ SubSeq(s, k, k + Len(sep) - 1) = sep

\* s.indexOf(sep, i), 1-based; 0 when sep does not occur at or after i
indexOf(s, sep, i) ==
  IF \E k \in i..Len(s) : OccursAt(s, sep, k)
  THEN CHOOSE k \in i..Len(s) :
         OccursAt(s, sep, k) /\ \A j \in i..(k - 1) : ~OccursAt(s, sep, j)
  ELSE 0

\* s.split(sep): the pieces of s from position i on
RECURSIVE splitFrom(_, _, _)
splitAt(s, sep, i, k) ==
  IF k = 0 THEN <<SubSeq(s, i, Len(s))>>
  ELSE <<SubSeq(s, i, k - 1)>> \o splitFrom(s, sep, k + Len(sep))

splitFrom(s, sep, i) == splitAt(s, sep, i, indexOf(s, sep, i))

split(s, sep) == splitFrom(s, sep, 1)

\* a regular expression anchored at the start, as the sequence of what each
\* position must hold; "#" stands for \d
MatchesAtStart(s, shape) ==
  /\ Len(s) >= Len(shape)
  /\ \A i \in 1..Len(shape) :
       IF shape[i] = "#" THEN IsDigit(s[i]) ELSE s[i] = shape[i]

\* ^\[\d{2}\.\d{2}\.\d{2}, \d{2}:\d{2}:\d{2}\]
TIMESTAMP_PATTERN ==
  <<"[", "#", "#", ".", "#", "#", ".", "#", "#", ",", " ",
    "#", "#", ":", "#", "#", ":", "#", "#", "]">>

\* messages with the message being built pushed, unless it is blank
pushed(messages, currentMessage) ==
  IF trim(currentMessage) # <<>>
  THEN Append(messages, trim(currentMessage))
  ELSE messages

\* a plausible slip: the line is tested untrimmed
afterLineUntrimmed(acc, line) ==
  IF MatchesAtStart(line, TIMESTAMP_PATTERN)
  THEN [messages       |-> pushed(acc.messages, acc.currentMessage),
        currentMessage |-> line]
  ELSE [messages       |-> acc.messages,
        currentMessage |-> IF acc.currentMessage # <<>>
                           THEN acc.currentMessage \o <<"\n">> \o line
                           ELSE acc.currentMessage]

\* the loop body of getSeparateMessages for one line
afterLine(acc, line) ==
  IF MatchesAtStart(trim(line), TIMESTAMP_PATTERN)
  THEN [messages       |-> pushed(acc.messages, acc.currentMessage),
        currentMessage |-> line]
  ELSE [messages       |-> acc.messages,
        currentMessage |-> IF acc.currentMessage # <<>>
                           THEN acc.currentMessage \o <<"\n">> \o line
                           ELSE acc.currentMessage]

RECURSIVE scanLines(_, _, _)
scanLines(lines, i, acc) ==
  IF i > Len(lines) THEN acc
  ELSE scanLines(lines, i + 1, afterLine(acc, lines[i]))

NotBlank(message) == Len(trim(message)) > 0

flushed(acc) == SelectSeq(pushed(acc.messages, acc.currentMessage), NotBlank)

getSeparateMessages(chatContent) ==
  flushed(scanLines(split(chatContent, <<"\n">>), 1,
                    [messages |-> <<>>, currentMessage |-> <<>>]))

(***************************************************************************)
(* Chat texts: up to MaxLines lines joined by newlines                     *)
(***************************************************************************)
MaxLines == 3

TwoDigits(n) == <<DigitChars[(n \div 10) + 1], DigitChars[(n % 10) + 1]>>

\* [DD.MM.YY, HH:MM:SS] of the export format
Stamp(day, month, year, hour, minute, second) ==
  <<"[">> \o TwoDigits(day) \o <<".">> \o TwoDigits(month) \o <<".">> \o TwoDigits(year)
    \o <<",", " ">> \o TwoDigits(hour) \o <<":">> \o TwoDigits(minute) \o <<":">>
    \o TwoDigits(second) \o <<"]">>

\* [DD.MM.YY, HH:MM:SS] <author>: <content>
Block(stamp, author, content) == stamp \o <<" ">> \o author \o <<":", " ">> \o content

StampA == Stamp(1, 2, 24, 10, 5, 9)
StampB == Stamp(3, 4, 65, 23, 59, 0)

\* two message lines, a continuation line, an empty line, an indented message
\* line, a line whose day has one digit, and a timestamp without a body
ChatLines ==
  { Block(StampA, <<"a">>, <<"h", "i">>),
    Block(StampB, <<"Y", "o", "u">>, <<"y", "o">>),
    <<"x">>,
    <<>>,
    <<" ">> \o Block(StampA, <<"b">>, <<"y", "o">>),
    <<"[", "1">> \o SubSeq(Block(StampA, <<"a">>, <<"h", "i">>), 4, 26),
    StampA }

RECURSIVE join(_, _)
join(lines, sep) ==
  IF Len(lines) = 0 THEN <<>>
  ELSE IF Len(lines) = 1 THEN lines[1]
  ELSE lines[1] \o sep \o join(Tail(lines), sep)

ChatTexts == { join(lines, <<"\n">>) : lines \in SeqsUpTo(ChatLines, MaxLines) }

SelfNames == {<<>>, <<<<"M", "e">>>>}

ParserInit(texts) ==
  /\ text \in texts
  /\ userNames \in SelfNames
  /\ parsed = Null
  /\ msg = IdleMessage
  /\ points = Null
  /\ engineIdle
  /\ hookIdle

ParserReturns(op, value) ==
  /\ IsNull(parsed)
  /\ parsed' = Some([op |-> op, value |-> value])
  /\ UNCHANGED <<text, userNames, scorerVars, engineVars, hookVars>>

Parsed(op) == ~IsNull(parsed) /\ Val(parsed).op = op

GetSeparateMessages == ParserReturns("getSeparateMessages", getSeparateMessages(text))

(***************************************************************************)
(* getMessageInfo.  The instant new Date(y, m, d, h, min, s) denotes is    *)
(* [day, second]: days since 1970-01-01 and seconds into that local day.   *)
(***************************************************************************)
SecondsPerDay == 86400

DigitValue(c) == (CHOOSE i \in 1..10 : DigitChars[i] = c) - 1

\* parseInt of a string of digits
RECURSIVE parseInt(_)
parseInt(s) ==
  IF Len(s) = 0 THEN 0
  ELSE parseInt(SubSeq(s, 1, Len(s) - 1)) * 10 + DigitValue(s[Len(s)])

\* new Date(year, monthIndex, day, hours, minutes, seconds): components out
\* of range carry over
dateAt(firstOfMonth, day, seconds) ==
  [day    |-> firstOfMonth + (day - 1) + (seconds \div SecondsPerDay),
   second |-> seconds % SecondsPerDay]

newDate(year, monthIndex, day, hours, minutes, seconds) ==
  dateAt(DaysFromCivil(year + (monthIndex \div 12), (monthIndex % 12) + 1, 1), day,
         hours * 3600 + minutes * 60 + seconds)

\* ^\[(?<date>\d{2}\.\d{2}\.\d{2}, \d{2}:\d{2}:\d{2})\] (?<author>[^:]+): (?<content>[\s\S]*)$
\* the author is one or more characters up to the first colon, which a space
\* must follow
MESSAGE_HEAD == TIMESTAMP_PATTERN \o <<" ">>

groupsAt(message, colon) ==
  IF colon <= Len(MESSAGE_HEAD) + 1 \/ ~OccursAt(message, <<":", " ">>, colon)
  THEN Null
  ELSE Some([date    |-> SubSeq(message, 2, Len(TIMESTAMP_PATTERN) - 1),
             author  |-> SubSeq(message, Len(MESSAGE_HEAD) + 1, colon - 1),
             content |-> SubSeq(message, colon + 2, Len(message))])

MESSAGE_REGEX(message) ==
  IF MatchesAtStart(message, MESSAGE_HEAD)
  THEN groupsAt(message, indexOf(message, <<":">>, Len(MESSAGE_HEAD) + 1))
  ELSE Null

\* /^you$/i
IsYou(author) ==
  /\ Len(author) = 3
  /\ author[1] \in {"y", "Y"}
  /\ author[2] \in {"o", "O"}
  /\ author[3] \in {"u", "U"}

getAuthor(author, names) ==
  IF IsYou(author)
  THEN IF Len(names) > 0 /\ names[1] # <<>> THEN names[1] ELSE author
  ELSE author

\* a plausible slip: every year belongs to the 2000s
fullYearIn2000s(year) == 2000 + parseInt(year)

fullYearOf(year) ==
  IF parseInt(year) < 50 THEN 2000 + parseInt(year) ELSE 1900 + parseInt(year)

timestampOf(dmy, hms) ==
  newDate(fullYearOf(dmy[3]), parseInt(dmy[2]) - 1, parseInt(dmy[1]),
          parseInt(hms[1]), parseInt(hms[2]), parseInt(hms[3]))

timestampFrom(parts) ==
  timestampOf(split(parts[1], <<".">>), split(parts[2], <<":">>))

messageInfoOf(groups, names) ==
  [author    |-> getAuthor(trim(groups.author), names),
   content   |-> trim(groups.content),
   timestamp |-> timestampFrom(split(groups.date, <<",", " ">>))]

messageInfoFrom(match, names) ==
  IF IsNull(match) THEN Err("Invalid message format")
  ELSE Ok(messageInfoOf(Val(match), names))

getMessageInfo(message, names) == messageInfoFrom(MESSAGE_REGEX(message), names)

\* the source's batchSize is 500; the model's batches hold 2 messages, so that
\* texts of MaxLines lines span more than one batch
batchSize == 2

\* a plausible slip: the first failure ends the batch
RECURSIVE batchInfosUntilFailure(_, _, _, _)
batchInfosUntilFailure(batch, k, names, messageInfos) ==
  IF k > Len(batch) THEN messageInfos
  ELSE IF getMessageInfo(batch[k], names).ok
       THEN batchInfosUntilFailure(batch, k + 1, names,
                                   Append(messageInfos, getMessageInfo(batch[k], names).value))
       ELSE messageInfos

\* the inner loop: try getMessageInfo on each message of the batch
RECURSIVE batchInfos(_, _, _, _)
batchInfos(batch, k, names, messageInfos) ==
  IF k > Len(batch) THEN messageInfos
  ELSE IF getMessageInfo(batch[k], names).ok
       THEN batchInfos(batch, k + 1, names,
                       Append(messageInfos, getMessageInfo(batch[k], names).value))
       ELSE batchInfos(batch, k + 1, names, messageInfos)

\* messages.slice(i, i + batchSize), i counted from 0
slice(messages, i, j) == SubSeq(messages, i + 1, Min(j, Len(messages)))

\* the outer loop over the batches
RECURSIVE parseBatches(_, _, _, _)
parseBatches(messages, i, names, messageInfos) ==
  IF i >= Len(messages) THEN messageInfos
  ELSE parseBatches(messages, i + batchSize, names,
                    batchInfos(slice(messages, i, i + batchSize), 1, names, messageInfos))

parseChatMessages(chatContent, names) ==
  parseBatches(getSeparateMessages(chatContent), 0, names, <<>>)

ParseChatMessages == ParserReturns("parseChatMessages", parseChatMessages(text, userNames))

TokenInit == ParserInit(ChatTexts)

TokenNext == GetSeparateMessages \/ ParseChatMessages

TokenSpec == TokenInit /\ [][TokenNext]_vars

\* the positions of the lines of chatContent that start with the timestamp
StampedLines(lines) ==
  { i \in 1..Len(lines) : MatchesAtStart(lines[i], TIMESTAMP_PATTERN) }

NthOf(S, n) == CHOOSE i \in S : Cardinality({ j \in S : j <= i }) = n

\* the last line of the message that starts at line i
LastLineOf(lines, S, i) ==
  IF \E j \in S : j > i THEN NthOf({ j \in S : j > i }, 1) - 1 ELSE Len(lines)

ClaimedMessage(lines, S, n) ==
  trim(join(SubSeq(lines, NthOf(S, n), LastLineOf(lines, S, NthOf(S, n))), <<"\n">>))

ClaimedMessages(lines, S) == [n \in 1..Cardinality(S) |-> ClaimedMessage(lines, S, n)]

\* C17: getSeparateMessages returns as many messages as the text has lines
\* that start with the timestamp pattern, none of them blank, and in input
\* order each is such a line followed by the lines up to the next such line,
\* joined by newlines; the lines before the first are dropped
C17_OneMessagePerStampedLine ==
  Parsed("getSeparateMessages") =>
    /\ Len(Val(parsed).value) = Cardinality(StampedLines(split(text, <<"\n">>)))
    /\ \A k \in 1..Len(Val(parsed).value) : NotBlank(Val(parsed).value[k])
    /\ Val(parsed).value
         = ClaimedMessages(split(text, <<"\n">>), StampedLines(split(text, <<"\n">>)))

\* the positions of the lines that start with the timestamp once trimmed
TrimmedStampedLines(lines) ==
  { i \in 1..Len(lines) : MatchesAtStart(trim(lines[i]), TIMESTAMP_PATTERN) }

\* C17 (amended): getSeparateMessages returns as many messages as the text
\* has lines that start with the timestamp pattern once leading and trailing
\* whitespace is removed, none of them blank, and in input order each is such
\* a line followed by the lines up to the next such line, joined by newlines
\* and trimmed; the lines before the first are dropped
C17_OneMessagePerTrimmedStampedLine ==
  Parsed("getSeparateMessages") =>
    /\ Len(Val(parsed).value) = Cardinality(TrimmedStampedLines(split(text, <<"\n">>)))
    /\ \A k \in 1..Len(Val(parsed).value) : NotBlank(Val(parsed).value[k])
    /\ Val(parsed).value
         = ClaimedMessages(split(text, <<"\n">>), TrimmedStampedLines(split(text, <<"\n">>)))

\* a message of two lines, followed by an indented timestamp line that
\* started a message of its own
C17_Witness ==
  /\ Parsed("getSeparateMessages")
  /\ text = join(<<Block(StampA, <<"a">>, <<"h", "i">>), (<<"x">>),
                   (<<" ">> \o Block(StampA, <<"b">>, <<"y", "o">>))>>, <<"\n">>)
  /\ Val(parsed).value = <<Block(StampA, <<"a">>, <<"h", "i">>) \o <<"\n", "x">>,
                           Block(StampA, <<"b">>, <<"y", "o">>)>>

(***************************************************************************)
(* Single message blocks                                                   *)
(***************************************************************************)
BlockDays == {<<1, 1>>, <<28, 2>>, <<31, 12>>}
BlockYears == {0, 49, 50, 99}
BlockTimes == {<<0, 0, 0>>, <<10, 5, 9>>, <<23, 59, 59>>}
BlockAuthors == {<<"a">>, <<"A", " ", "b">>, <<"Y", "o", "u">>, <<"y", "O", "U">>}

\* two contents, one of them holding ": ", then an empty and a padded one
BlockContents == {<<"h", "i">>, <<"a", ":", " ", "b">>, <<>>, <<" ", "h", "i">>}

BlockOf(dm, yy, hms, author, content) ==
  Block(Stamp(dm[1], dm[2], yy, hms[1], hms[2], hms[3]), author, content)

BlockTexts ==
  { BlockOf(dm, yy, hms, author, content) :
      dm \in BlockDays, yy \in BlockYears, hms \in BlockTimes,
      author \in BlockAuthors, content \in BlockContents }

\* getMessageInfo(getSeparateMessages(block)[0]); with no first message the
\* call throws on message.match
firstMessageInfo(messages, names) ==
  IF Len(messages) = 0 THEN Err("TypeError")
  ELSE getMessageInfo(messages[1], names)

GetFirstMessageInfo ==
  ParserReturns("getMessageInfo", firstMessageInfo(getSeparateMessages(text), userNames))

ExtractInit == ParserInit(BlockTexts)

ExtractNext == GetFirstMessageInfo

ExtractSpec == ExtractInit /\ [][ExtractNext]_vars

\* a block is well formed when its content is not empty and carries no
\* leading or trailing whitespace (the authors and dates above all are)
WellFormedContent(content) == content # <<>> /\ trim(content) = content

ExpandedYear(yy) == IF yy < 50 THEN 2000 + yy ELSE 1900 + yy

\* the instant reads back as the day, month, expanded year, hour, minute and
\* second written in the block
SameInstant(timestamp, dm, yy, hms) ==
  /\ CivilFromDays(timestamp.day) = [year |-> ExpandedYear(yy), month |-> dm[2], day |-> dm[1]]
  /\ timestamp.second \div 3600 = hms[1]
  /\ (timestamp.second % 3600) \div 60 = hms[2]
  /\ timestamp.second % 60 = hms[3]

NormalizedAuthor(author, names) ==
  IF IsYou(author) /\ names # <<>> /\ names[1] # <<>> THEN names[1] ELSE author

Extractable(blocks, names) ==
  { k \in 1..Len(blocks) : getMessageInfo(blocks[k], names).ok }

\* C19: parseChatMessages returns, in input order, exactly the extractions
\* of the blocks whose extraction succeeds; a failing block is left out and
\* changes nothing for the blocks before and after it, in its batch or in
\* the next
C19_FailuresDropped ==
  Parsed("parseChatMessages") =>
    /\ Len(Val(parsed).value)
         = Cardinality(Extractable(getSeparateMessages(text), userNames))
    /\ \A n \in 1..Len(Val(parsed).value) :
         Val(parsed).value[n]
           = getMessageInfo(getSeparateMessages(text)[
               NthOf(Extractable(getSeparateMessages(text), userNames), n)], userNames).value

\* three blocks in two batches: the first block of the first batch fails,
\* the second and the block of the second batch are returned
C19_Witness ==
  /\ Parsed("parseChatMessages")
  /\ text = join(<<StampA, Block(StampA, <<"a">>, <<"h", "i">>),
                   Block(StampB, <<"Y", "o", "u">>, <<"y", "o">>)>>, <<"\n">>)
  /\ Len(getSeparateMessages(text)) = 3
  /\ Len(getSeparateMessages(text)) > batchSize
  /\ Len(Val(parsed).value) = 2
  /\ Val(parsed).value[1].author = <<"a">>
  /\ Val(parsed).value[2].content = <<"y", "o">>

(***************************************************************************)
(* The content classifier (content-parser.ts).  A regular expression is    *)
(* the predicate on strings it tests; "*" stands for the bullet U+2022.    *)
(***************************************************************************)
\* the line terminators, which "." does not match
IsLineBreak(c) == c \in {"\n", "\r"}

NoLineBreak(s) == \A i \in 1..Len(s) : ~IsLineBreak(s[i])

StartsWith(s, prefix) == OccursAt(s, prefix, 1)

\* /suffix$/
EndsWith(s, suffix) == Len(s) >= Len(suffix) /\ OccursAt(s, suffix, Len(s) - Len(suffix) + 1)

\* /.+suffix$/
EndsWithAfterSome(s, suffix) ==
  /\ Len(s) > Len(suffix)
  /\ EndsWith(s, suffix)
  /\ ~IsLineBreak(s[Len(s) - Len(suffix)])

\* /^.+infix.+$/
HoldsWithin(s, infix) ==
  /\ NoLineBreak(s)
  /\ \E k \in 2..Len(s) : OccursAt(s, infix, k) /\ k + Len(infix) <= Len(s)

SpDeletedSp ==
  <<" ", "d", "e", "l", "e", "t", "e", "d", " ">>

SpChangedSp ==
  <<" ", "c", "h", "a", "n", "g", "e", "d", " ">>

SpRemovedSp ==
  <<" ", "r", "e", "m", "o", "v", "e", "d", " ">>

SpAddedSp ==
  <<" ", "a", "d", "d", "e", "d", " ">>

SpLeft ==
  <<" ", "l", "e", "f", "t">>

SpJoinedUsingYourInvite ==
  <<" ", "j", "o", "i", "n", "e", "d", " ", "u", "s", "i", "n", "g", " ", 
    "y", "o", "u", "r", " ", "i", "n", "v", "i", "t", "e">>


\* SYSTEM_REGEXES.some((r) => r.test(content))
SYSTEM_REGEXES(content) ==
  \/ \E infix \in {SpDeletedSp, SpChangedSp, SpRemovedSp, SpAddedSp} : HoldsWithin(content, infix)
  \/ NoLineBreak(content) /\ EndsWith(content, SpLeft)
  \/ EndsWithAfterSome(content, SpJoinedUsingYourInvite)

ImageOmitted ==
  <<"i", "m", "a", "g", "e", " ", "o", "m", "i", "t", "t", "e", "d">>

VideoOmitted ==
  <<"v", "i", "d", "e", "o", " ", "o", "m", "i", "t", "t", "e", "d">>

VideoNoteOmitted ==
  <<"v", "i", "d", "e", "o", " ", "n", "o", "t", "e", " ", "o", "m", "i", 
    "t", "t", "e", "d">>

AudioOmitted ==
  <<"a", "u", "d", "i", "o", " ", "o", "m", "i", "t", "t", "e", "d">>

DocumentOmitted ==
  <<"d", "o", "c", "u", "m", "e", "n", "t", " ", "o", "m", "i", "t", "t", 
    "e", "d">>

StickerOmitted ==
  <<"s", "t", "i", "c", "k", "e", "r", " ", "o", "m", "i", "t", "t", "e", 
    "d">>

ContactCardOmitted ==
  <<"C", "o", "n", "t", "a", "c", "t", " ", "c", "a", "r", "d", " ", "o", 
    "m", "i", "t", "t", "e", "d">>

GifOmitted ==
  <<"G", "I", "F", " ", "o", "m", "i", "t", "t", "e", "d">>

PollColon ==
  <<"P", "O", "L", "L", ":">>


\* the type of the first of TYPE_REGEXES that matches, <<>> when none does
TYPE_REGEXES(content) ==
  IF EndsWith(content, ImageOmitted) THEN Some("image")
  ELSE IF EndsWith(content, VideoOmitted) THEN Some("video")
  ELSE IF EndsWith(content, VideoNoteOmitted) THEN Some("video note")
  ELSE IF EndsWith(content, AudioOmitted) THEN Some("audio")
  ELSE IF EndsWith(content, DocumentOmitted) THEN Some("document")
  ELSE IF content = StickerOmitted THEN Some("sticker")
  ELSE IF EndsWith(content, ContactCardOmitted) THEN Some("contact")
  ELSE IF EndsWith(content, GifOmitted) THEN Some("gif")
  ELSE IF StartsWith(content, PollColon) THEN Some("poll")
  ELSE Null

ThisMessageWasDeleted ==
  <<"T", "h", "i", "s", " ", "m", "e", "s", "s", "a", "g", "e", " ", "w", 
    "a", "s", " ", "d", "e", "l", "e", "t", "e", "d", ".">>

YouDeletedThisMessageAsAdmin ==
  <<"Y", "o", "u", " ", "d", "e", "l", "e", "t", "e", "d", " ", "t", "h", 
    "i", "s", " ", "m", "e", "s", "s", "a", "g", "e", " ", "a", "s", " ", 
    "a", "d", "m", "i", "n", ".">>

SpThisMessageWasEdited ==
  <<" ", "<", "T", "h", "i", "s", " ", "m", "e", "s", "s", "a", "g", "e", 
    " ", "w", "a", "s", " ", "e", "d", "i", "t", "e", "d", ">">>


\* content.replace(STATUS_REGEXES.edited, '')
withoutEdited(content) == SubSeq(content, 1, Len(content) - Len(SpThisMessageWasEdited))

\* a plausible slip: a deleted message keeps its text
getMessageStatusKeepingDeleted(content) ==
  IF IsNull(content) THEN [status |-> "active", content |-> Null]
  ELSE IF EndsWith(Val(content), ThisMessageWasDeleted)
            \/ EndsWith(Val(content), YouDeletedThisMessageAsAdmin)
       THEN [status |-> "deleted", content |-> content]
       ELSE IF EndsWith(Val(content), SpThisMessageWasEdited)
            THEN [status |-> "edited", content |-> Some(trim(withoutEdited(Val(content))))]
            ELSE [status |-> "active", content |-> content]

getMessageStatus(content) ==
  IF IsNull(content) THEN [status |-> "active", content |-> Null]
  ELSE IF EndsWith(Val(content), ThisMessageWasDeleted) THEN [status |-> "deleted", content |-> Null]
  ELSE IF EndsWith(Val(content), YouDeletedThisMessageAsAdmin)
       THEN [status |-> "deleted", content |-> Null]
  ELSE IF EndsWith(Val(content), SpThisMessageWasEdited)
       THEN [status |-> "edited", content |-> Some(trim(withoutEdited(Val(content))))]
  ELSE [status |-> "active", content |-> content]

Sec ==
  <<"s", "e", "c">>

Minute ==
  <<"m", "i", "n">>

Hr ==
  <<"h", "r">>

SpBulletSp ==
  <<" ", "*", " ">>

SpJoined ==
  <<" ", "j", "o", "i", "n", "e", "d">>

SpStartedAVideoCall ==
  <<" ", "s", "t", "a", "r", "t", "e", "d", " ", "a", " ", "v", "i", "d", 
    "e", "o", " ", "c", "a", "l", "l">>

SpStartedACall ==
  <<" ", "s", "t", "a", "r", "t", "e", "d", " ", "a", " ", "c", "a", "l", 
    "l">>

MissedVideoCallSp ==
  <<"M", "i", "s", "s", "e", "d", " ", "v", "i", "d", "e", "o", " ", "c", 
    "a", "l", "l", ".", " ">>

MissedVoiceCallSp ==
  <<"M", "i", "s", "s", "e", "d", " ", "v", "o", "i", "c", "e", " ", "c", 
    "a", "l", "l", ".", " ">>

VideoCallSp ==
  <<"V", "i", "d", "e", "o", " ", "c", "a", "l", "l", ".", " ">>

CallSp ==
  <<"C", "a", "l", "l", ".", " ">>

VoiceCallSp ==
  <<"V", "o", "i", "c", "e", " ", "c", "a", "l", "l", ".", " ">>


\* the last position of the run of digits that holds position k
RECURSIVE digitsEnd(_, _)
digitsEnd(s, k) ==
  IF k < Len(s) /\ IsDigit(s[k + 1]) THEN digitsEnd(s, k + 1) ELSE k

unitAt(s, k) ==
  IF OccursAt(s, Sec, k) THEN Some(Sec)
  ELSE IF OccursAt(s, Minute, k) THEN Some(Minute)
  ELSE IF OccursAt(s, Hr, k) THEN Some(Hr)
  ELSE Null

\* (\d+) (sec|min|hr) * (\d+) joined, matched from position k on: the two
\* numbers, the unit and the last position of the match, or <<>>
infoAfterJoined(s, k, e, unit, j, e2) ==
  IF OccursAt(s, SpJoined, e2 + 1)
  THEN Some([duration |-> SubSeq(s, k, e), durationUnit |-> unit,
             joined |-> SubSeq(s, j, e2), last |-> e2 + Len(SpJoined)])
  ELSE Null

infoAfterBullet(s, k, e, unit, j) ==
  IF j <= Len(s) /\ IsDigit(s[j])
  THEN infoAfterJoined(s, k, e, unit, j, digitsEnd(s, j))
  ELSE Null

infoAfterUnit(s, k, e, unit) ==
  IF ~IsNull(unit) /\ OccursAt(s, SpBulletSp, e + 2 + Len(Val(unit)))
  THEN infoAfterBullet(s, k, e, Val(unit), e + 2 + Len(Val(unit)) + Len(SpBulletSp))
  ELSE Null

infoAfterDuration(s, k, e) ==
  IF OccursAt(s, <<" ">>, e + 1) THEN infoAfterUnit(s, k, e, unitAt(s, e + 2)) ELSE Null

infoAt(s, k) ==
  IF k >= 1 /\ k <= Len(s) /\ IsDigit(s[k])
  THEN infoAfterDuration(s, k, digitsEnd(s, k))
  ELSE Null

\* content.match(infoCheckRegex): the leftmost match
infoCheckRegex(s) ==
  IF \E k \in 1..Len(s) : ~IsNull(infoAt(s, k))
  THEN infoAt(s, CHOOSE k \in 1..Len(s) :
                   ~IsNull(infoAt(s, k)) /\ \A j \in 1..(k - 1) : IsNull(infoAt(s, j)))
  ELSE Null

\* /<phrase> (\d+) (sec|min|hr) * (\d+) joined$/
CALL_REGEX(s, phrase) ==
  \E k \in 1..Len(s) :
    /\ OccursAt(s, phrase, k)
    /\ ~IsNull(infoAt(s, k + Len(phrase)))
    /\ Val(infoAt(s, k + Len(phrase))).last = Len(s)

\* Number(joined) || null
joinedOf(digits) == IF parseInt(digits) = 0 THEN Null ELSE Some(parseInt(digits))

durationOf(digits, durationUnit) ==
  IF durationUnit = Sec THEN parseInt(digits)
  ELSE IF durationUnit = Minute THEN parseInt(digits) * 60
  ELSE parseInt(digits) * 3600

\* info; without a match both numbers are NaN, joined then null
infoOf(match) ==
  IF IsNull(match) THEN [joined |-> Null, duration |-> Some("NaN")]
  ELSE [joined   |-> joinedOf(Val(match).joined),
        duration |-> Some(durationOf(Val(match).duration, Val(match).durationUnit))]

respond(type, missed, info) ==
  Some([type |-> type, missed |-> missed, joined |-> info.joined, duration |-> info.duration])

NoInfo == [joined |-> Null, duration |-> Null]

callWith(content, info) ==
  IF CALL_REGEX(content, MissedVideoCallSp) THEN respond("video", Some(TRUE), info)
  ELSE IF CALL_REGEX(content, MissedVoiceCallSp) THEN respond("voice", Some(TRUE), info)
  ELSE IF CALL_REGEX(content, VideoCallSp) THEN respond("video", Some(FALSE), info)
  ELSE IF CALL_REGEX(content, CallSp) THEN respond("voice", Some(FALSE), info)
  ELSE IF CALL_REGEX(content, VoiceCallSp) THEN respond("voice", Some(FALSE), info)
  ELSE Null

getCallInfo(content) ==
  IF IsNull(content) THEN Null
  ELSE IF EndsWithAfterSome(Val(content), SpStartedAVideoCall) THEN respond("video", Null, NoInfo)
  ELSE IF EndsWithAfterSome(Val(content), SpStartedACall) THEN respond("voice", Null, NoInfo)
  ELSE callWith(Val(content), infoOf(infoCheckRegex(Val(content))))

OptionColon ==
  <<"O", "P", "T", "I", "O", "N", ":">>

Vote ==
  <<"v", "o", "t", "e">>

\* the letters and the underscore of \w
WordLetters ==
  {"a", "b", "c", "d", "e", "f", "g", "h", "i", "j", "k", "l", "m", "n", 
     "o", "p", "q", "r", "s", "t", "u", "v", "w", "x", "y", "z", "A", "B", 
     "C", "D", "E", "F", "G", "H", "I", "J", "K", "L", "M", "N", "O", "P", 
     "Q", "R", "S", "T", "U", "V", "W", "X", "Y", "Z", "_"}


IsWordChar(c) == IsDigit(c) \/ c \in WordLetters

\* the last position of the run of whitespace that follows position k
RECURSIVE spacesEnd(_, _)
spacesEnd(s, k) ==
  IF k < Len(s) /\ IsWhiteSpace(s[k + 1]) THEN spacesEnd(s, k + 1) ELSE k

\* the last position of the line that holds position k
lineEnd(s, k) ==
  IF indexOf(s, <<"\n">>, k) = 0 THEN Len(s) ELSE indexOf(s, <<"\n">>, k) - 1

\* /POLL:\s*\n?([^\n]+)/ at the POLL: that starts at k: where the question
\* starts, 0 without a match; \s* gives back whitespace until a character
\* other than a newline follows
questionStartIn(s, first, last) ==
  IF \E g \in first..last : s[g] # "\n"
  THEN CHOOSE g \in first..last : s[g] # "\n" /\ \A h \in (g + 1)..last : s[h] = "\n"
  ELSE 0

questionStart(s, k) ==
  IF OccursAt(s, PollColon, k)
  THEN questionStartIn(s, k + Len(PollColon),
                       Min(spacesEnd(s, k + Len(PollColon) - 1) + 1, Len(s)))
  ELSE 0

questionAt(s, g) == SubSeq(s, g, lineEnd(s, g))

\* content.match(/POLL:\s*\n?([^\n]+)/): the question of the leftmost match
questionMatch(s) ==
  IF \E k \in 1..Len(s) : questionStart(s, k) # 0
  THEN Some(questionAt(s, questionStart(s, CHOOSE k \in 1..Len(s) :
                 questionStart(s, k) # 0 /\ \A j \in 1..(k - 1) : questionStart(s, j) = 0)))
  ELSE Null

\* /OPTION:\s*([^(]+?)\s*\((\d+)\s*votes?\)/ matched from position k on:
\* the option, the votes and the last position of the match, or <<>>
optionAfterVote(s, k, p, e, v) ==
  IF OccursAt(s, <<"s", ")">>, v) \/ OccursAt(s, <<")">>, v)
  THEN Some([option |-> trim(SubSeq(s, k + Len(OptionColon), p - 1)),
             votes  |-> parseInt(SubSeq(s, p + 1, e)),
             last   |-> IF OccursAt(s, <<")">>, v) THEN v ELSE v + 1])
  ELSE Null

optionAfterVotes(s, k, p, e, w) ==
  IF OccursAt(s, Vote, w + 1) THEN optionAfterVote(s, k, p, e, w + 1 + Len(Vote)) ELSE Null

optionAfterParen(s, k, p) ==
  IF p > k + Len(OptionColon) /\ p < Len(s) /\ IsDigit(s[p + 1])
  THEN optionAfterVotes(s, k, p, digitsEnd(s, p + 1), spacesEnd(s, digitsEnd(s, p + 1)))
  ELSE Null

optionAt(s, k) ==
  IF OccursAt(s, OptionColon, k)
  THEN optionAfterParen(s, k, indexOf(s, <<"(">>, k + Len(OptionColon)))
  ELSE Null

\* the exec loop: the leftmost match at or after i, then on from its end
RECURSIVE optionsFrom(_, _, _)
optionsAfter(s, match, options) ==
  optionsFrom(s, match.last + 1,
              Append(options, [option |-> match.option, votes |-> match.votes]))

optionsFrom(s, i, options) ==
  IF \E k \in i..Len(s) : ~IsNull(optionAt(s, k))
  THEN optionsAfter(s, Val(optionAt(s, CHOOSE k \in i..Len(s) :
                       ~IsNull(optionAt(s, k)) /\ \A j \in i..(k - 1) : IsNull(optionAt(s, j)))),
                    options)
  ELSE options

pollOf(question, options) ==
  IF Len(options) = 0 THEN Null
  ELSE Some([question |-> trim(question), options |-> options])

parsePoll(content) ==
  IF ~StartsWith(content, PollColon) THEN Null
  ELSE IF IsNull(questionMatch(content)) THEN Null
  ELSE pollOf(trim(Val(questionMatch(content))), optionsFrom(content, 1, <<>>))

\* the last position of the run of word characters that holds position k
RECURSIVE wordEnd(_, _)
wordEnd(s, k) ==
  IF k < Len(s) /\ IsWordChar(s[k + 1]) THEN wordEnd(s, k + 1) ELSE k

\* /@(\w+)/ at k
MentionAt(s, k) == s[k] = "@" /\ k < Len(s) /\ IsWordChar(s[k + 1])

RECURSIVE mentionsFrom(_, _, _)
mentionsAfter(s, k, mentions) ==
  mentionsFrom(s, wordEnd(s, k + 1) + 1, Append(mentions, SubSeq(s, k + 1, wordEnd(s, k + 1))))

mentionsFrom(s, i, mentions) ==
  IF \E k \in i..Len(s) : MentionAt(s, k)
  THEN mentionsAfter(s, CHOOSE k \in i..Len(s) :
                          MentionAt(s, k) /\ \A j \in i..(k - 1) : ~MentionAt(s, j),
                     mentions)
  ELSE mentions

detectMentions(content) ==
  IF IsNull(content) THEN <<>> ELSE mentionsFrom(Val(content), 1, <<>>)

\* the ContentInfo parseContent returns
contentInfo(content, type, statusResult, callInfo) ==
  [type     |-> type,
   call     |-> callInfo,
   content  |-> IF IsNull(callInfo) THEN statusResult.content ELSE Null,
   status   |-> statusResult.status,
   poll     |-> IF type = "poll" THEN parsePoll(content) ELSE Null,
   mentions |-> detectMentions(statusResult.content)]

\* type and statusContent, then the call check
withCall(content, type, statusResult, callInfo) ==
  contentInfo(content, IF IsNull(callInfo) THEN type ELSE "call", statusResult, callInfo)

withStatus(content, type, statusResult) ==
  withCall(content, type, statusResult, getCallInfo(statusResult.content))

\* matched: the type TYPE_REGEXES found, which sets messageContent to null
withType(content, matched) ==
  IF IsNull(matched)
  THEN withStatus(content, "text", getMessageStatus(Some(content)))
  ELSE withStatus(content, Val(matched), getMessageStatus(Null))

parseContent(content) ==
  IF SYSTEM_REGEXES(content) THEN Null
  ELSE Some(withType(content, TYPE_REGEXES(content)))

(***************************************************************************)
(* Message contents: a phrase, alone or after other text on the same or    *)
(* on an earlier line, with and without the edited marker                  *)
(***************************************************************************)
ContentPhrases ==
  {ThisMessageWasDeleted,
   YouDeletedThisMessageAsAdmin,
   ImageOmitted,
   VideoOmitted,
   VideoNoteOmitted,
   AudioOmitted,
   DocumentOmitted,
   StickerOmitted,
   ContactCardOmitted,
   GifOmitted,
   <<"h", "i">>,
   <<"h", "i", " ", "@", "a", "b", "_", "1">>,
   <<"P", "O", "L", "L", ":", "\n", "q", "\n", "O", "P", "T", "I", "O", 
     "N", ":", " ", "a", " ", "(", "1", " ", "v", "o", "t", "e", ")", "\n", 
     "O", "P", "T", "I", "O", "N", ":", " ", "b", " ", "(", "0", " ", "v", 
     "o", "t", "e", "s", ")">>,
   <<"P", "O", "L", "L", ":", "\n", "q">>,
   <<"M", "i", "s", "s", "e", "d", " ", "v", "i", "d", "e", "o", " ", "c", 
     "a", "l", "l", ".", " ", "5", " ", "s", "e", "c", " ", "*", " ", "2", 
     " ", "j", "o", "i", "n", "e", "d">>,
   <<"M", "i", "s", "s", "e", "d", " ", "v", "o", "i", "c", "e", " ", "c", 
     "a", "l", "l", ".", " ", "1", " ", "m", "i", "n", " ", "*", " ", "0", 
     " ", "j", "o", "i", "n", "e", "d">>,
   <<"V", "i", "d", "e", "o", " ", "c", "a", "l", "l", ".", " ", "2", " ", 
     "h", "r", " ", "*", " ", "3", " ", "j", "o", "i", "n", "e", "d">>,
   <<"C", "a", "l", "l", ".", " ", "5", " ", "s", "e", "c", " ", "*", " ", 
     "2", " ", "j", "o", "i", "n", "e", "d">>,
   <<"V", "o", "i", "c", "e", " ", "c", "a", "l", "l", ".", " ", "1", "0", 
     " ", "m", "i", "n", " ", "*", " ", "1", "2", " ", "j", "o", "i", "n", 
     "e", "d">>,
   <<"a", " ", "s", "t", "a", "r", "t", "e", "d", " ", "a", " ", "v", "i", 
     "d", "e", "o", " ", "c", "a", "l", "l">>,
   <<"a", " ", "s", "t", "a", "r", "t", "e", "d", " ", "a", " ", "c", "a", 
     "l", "l">>,
   <<"a", " ", "a", "d", "d", "e", "d", " ", "b">>,
   <<"a", " ", "l", "e", "f", "t">>,
   <<"b", " ", "j", "o", "i", "n", "e", "d", " ", "u", "s", "i", "n", "g", 
     " ", "y", "o", "u", "r", " ", "i", "n", "v", "i", "t", "e">>}

ContentPrefixes == {<<>>, <<"x", " ">>, <<"x", "\n">>}

ContentSuffixes == {<<>>, SpThisMessageWasEdited}

ContentTexts ==
  { prefix \o phrase \o suffix :
      prefix \in ContentPrefixes, phrase \in ContentPhrases, suffix \in ContentSuffixes }

ClassifyInit ==
  /\ text \in ContentTexts
  /\ userNames = <<>>
  /\ parsed = Null
  /\ msg = IdleMessage
  /\ points = Null
  /\ engineIdle
  /\ hookIdle

ParseContent == ParserReturns("parseContent", parseContent(text))

ClassifyNext == ParseContent

ClassifySpec == ClassifyInit /\ [][ClassifyNext]_vars

MediaTypes == {"image", "video", "video note", "audio", "document", "sticker", "contact", "gif"}

\* C20: in every ContentInfo parseContent returns, call is non-null exactly
\* when type = call, poll is non-null only when type = poll, and content is
\* null when status = deleted, when type is a media placeholder type, and
\* when the message is a call
C20_ContentInfoInvariant ==
  (Parsed("parseContent") /\ ~IsNull(Val(parsed).value)) =>
    /\ ~IsNull(Val(Val(parsed).value).call) <=> Val(Val(parsed).value).type = "call"
    /\ ~IsNull(Val(Val(parsed).value).poll) => Val(Val(parsed).value).type = "poll"
    /\ Val(Val(parsed).value).status = "deleted" => IsNull(Val(Val(parsed).value).content)
    /\ Val(Val(parsed).value).type \in MediaTypes => IsNull(Val(Val(parsed).value).content)
    /\ Val(Val(parsed).value).type = "call" => IsNull(Val(Val(parsed).value).content)

\* a deleted message after other text was classified: text, deleted, no
\* content, no call and no poll
C20_Witness ==
  /\ Parsed("parseContent")
  /\ text = <<"x", " ">> \o ThisMessageWasDeleted
  /\ ~IsNull(Val(parsed).value)
  /\ Val(Val(parsed).value).type = "text"
  /\ Val(Val(parsed).value).status = "deleted"
  /\ IsNull(Val(Val(parsed).value).content)
  /\ IsNull(Val(Val(parsed).value).call)
  /\ IsNull(Val(Val(parsed).value).poll)

(***************************************************************************)
(* Call phrases: <phrase> <number> <unit> * <count> joined, alone or after *)
(* other text, and the phrasings of a started call                         *)
(***************************************************************************)
RECURSIVE DecimalOf(_)
DecimalOf(n) ==
  IF n < 10 THEN <<DigitChars[n + 1]>>
  ELSE DecimalOf(n \div 10) \o <<DigitChars[(n % 10) + 1]>>

CallKinds ==
  { [phrase |-> MissedVideoCallSp, type |-> "video", missed |-> TRUE],
    [phrase |-> MissedVoiceCallSp, type |-> "voice", missed |-> TRUE],
    [phrase |-> VideoCallSp, type |-> "video", missed |-> FALSE],
    [phrase |-> CallSp, type |-> "voice", missed |-> FALSE],
    [phrase |-> VoiceCallSp, type |-> "voice", missed |-> FALSE] }

CallUnits ==
  { [unit |-> Sec, seconds |-> 1], [unit |-> Minute, seconds |-> 60],
    [unit |-> Hr, seconds |-> 3600] }

CallNumbers == {0, 5, 12}
CallCounts == {0, 3, 10}

InfoPhrase(number, unit, count) ==
  DecimalOf(number) \o <<" ">> \o unit \o SpBulletSp \o DecimalOf(count) \o SpJoined

CallPhrase(kind, number, unit, count) == kind.phrase \o InfoPhrase(number, unit.unit, count)

\* nothing, a word, an earlier line, and a sentence that quotes a call's
\* numbers
CallPrefixes == {<<>>, <<"x", " ">>, <<"x", "\n">>, InfoPhrase(1, Sec, 9) \o <<".", " ">>}

StartedKinds ==
  { [phrase |-> SpStartedAVideoCall, type |-> "video"],
    [phrase |-> SpStartedACall, type |-> "voice"] }

CallTexts ==
  { prefix \o CallPhrase(kind, number, unit, count) :
      prefix \in CallPrefixes, kind \in CallKinds, number \in CallNumbers,
      unit \in CallUnits, count \in CallCounts }
  \cup { <<"a">> \o kind.phrase : kind \in StartedKinds }

CallInit ==
  /\ text \in CallTexts
  /\ userNames = <<>>
  /\ parsed = Null
  /\ msg = IdleMessage
  /\ points = Null
  /\ engineIdle
  /\ hookIdle

CallSpec == CallInit /\ [][ClassifyNext]_vars

ClaimedCall(kind, number, unit, count) ==
  [type |-> kind.type, missed |-> Some(kind.missed),
   joined |-> Some(count), duration |-> Some(number * unit.seconds)]

\* C21: for a content that ends in a missed or completed call phrase,
\* parseContent yields type call, no content and the call's type, missed
\* flag, duration in seconds and number joined; for a started call missed,
\* joined and duration are null
C21_CallInfo ==
  Parsed("parseContent") =>
    /\ \A prefix \in CallPrefixes, kind \in CallKinds, number \in CallNumbers,
          unit \in CallUnits, count \in CallCounts :
         text = prefix \o CallPhrase(kind, number, unit, count) =>
           /\ ~IsNull(Val(parsed).value)
           /\ Val(Val(parsed).value).type = "call"
           /\ IsNull(Val(Val(parsed).value).content)
           /\ Val(Val(parsed).value).call = Some(ClaimedCall(kind, number, unit, count))
    /\ \A kind \in StartedKinds :
         text = <<"a">> \o kind.phrase =>
           /\ ~IsNull(Val(parsed).value)
           /\ Val(Val(parsed).value).type = "call"
           /\ IsNull(Val(Val(parsed).value).content)
           /\ Val(Val(parsed).value).call
                = Some([type |-> kind.type, missed |-> Null, joined |-> Null, duration |-> Null])

(***************************************************************************)
(* Order and truncation of a ranking.  OrderSpec: one getRankings call on  *)
(* a fresh engine, with and without a limit, over the collections of       *)
(* RankSpec up to a length of its own.                                     *)
(***************************************************************************)
MaxOrderMsgs == 3

OrderInit == EngineInit(SeqsUpTo(RankMessages, MaxOrderMsgs))

OrderQuery ==
  /\ calls < 1
  /\ \E c \in RankConfigs : GetRankings(c)

OrderNext == OrderQuery

OrderSpec == OrderInit /\ [][OrderNext]_vars

FirstAppearance(list, author) ==
  CHOOSE i \in 1..Len(list) :
    /\ list[i].author = author
    /\ \A j \in 1..(i - 1) : list[j].author # author

\* the ranking of the same window without a limit
FullRankings(config, t) == FreshRankings([config EXCEPT !.limit = Null], t)

OneEntryPerAuthor(full, window) ==
  /\ \A i \in 1..Len(window) : \E k \in 1..Len(full) : full[k].author = window[i].author
  /\ \A k \in 1..Len(full) : \E i \in 1..Len(window) : full[k].author = window[i].author
  /\ \A k, l \in 1..Len(full) : full[k].author = full[l].author => k = l

StableDescending(full, window) ==
  \A k \in 1..(Len(full) - 1) :
    \/ full[k].value > full[k + 1].value
    \/ /\ full[k].value = full[k + 1].value
       /\ FirstAppearance(window, full[k].author) < FirstAppearance(window, full[k + 1].author)

FirstEntries(returned, full, limit) ==
  returned = SubSeq(full, 1, Min(Val(limit), Len(full)))

\* C22: getRankings has one entry per distinct author of the filtered
\* window, in non-increasing order of value, authors with equal values in
\* the order of their first message in the window; with a limit L it returns
\* the first L entries of that list, with the ranks and percentages they
\* have in the full list
C22_StableOrderAndLimit ==
  Called("getRankings") =>
    IF IsNull(Val(call).config.limit)
    THEN /\ OneEntryPerAuthor(Val(ret).value, Val(filtered).list)
         /\ StableDescending(Val(ret).value, Val(filtered).list)
    ELSE FirstEntries(Val(ret).value, FullRankings(Val(call).config, Val(call).at),
                      Val(call).config.limit)

\* a ranking cut to one entry out of three authors, the first two with
\* equal values, of which 'b' wrote first
C22_Witness ==
  /\ Called("getRankings")
  /\ Val(call).config.limit = Some(1)
  /\ Len(Val(ret).value) = 1
  /\ Val(ret).value[1].author = "b"
  /\ Len(Users(Val(filtered).list)) = 3
  /\ FirstAppearance(Val(filtered).list, "b") < FirstAppearance(Val(filtered).list, "a")
  /\ rankingsOf(Val(filtered).list, [Val(call).config EXCEPT !.limit = Null], Val(call).at)[2].author = "a"
  /\ rankingsOf(Val(filtered).list, [Val(call).config EXCEPT !.limit = Null], Val(call).at)[2].value
       = Val(ret).value[1].value
  /\ Val(ret).value[1].percentage.den > Val(ret).value[1].value

(***************************************************************************)
(* NodeSpec: one Filter.where(node) call, the node carrying one or two     *)
(* combinators next to field predicates of its own.                        *)
(***************************************************************************)
NodePredicates ==
  { [NoFilter EXCEPT !.author = Some(Op("eq", "a"))],
    [NoFilter EXCEPT !.timestamp = Some(Op("gte", Now0 - 1))],
    [NoFilter EXCEPT !.message = Some([NoContentFilter EXCEPT !.status = Some(Op("eq", "deleted"))])],
    NoFilter }

Combinators == {<<"AND">>, <<"OR">>, <<"NOT">>, <<"AND", "NOT">>, <<"OR", "NOT">>, <<"AND", "OR">>}

\* the node { ...fields, AND: [A], OR: [A, B], NOT: B } restricted to the
\* combinators named in kinds
NodeOf(kinds, A, B, fields) ==
  [fields EXCEPT
     !.AND = IF InSeq("AND", kinds) THEN Some(<<A>>) ELSE Null,
     !.OR  = IF InSeq("OR", kinds) THEN Some(<<A, B>>) ELSE Null,
     !.NOT = IF InSeq("NOT", kinds) THEN Some(B) ELSE Null]

\* new Filter(data).where(node)
WhereNode(node) ==
  /\ calls < 1
  /\ ret' = Some(Ok(whereRefs(data0, node)))
  /\ call' = Some([op |-> "whereNode", author |-> Null, config |-> node, at |-> now])
  /\ calls' = calls + 1
  /\ UNCHANGED <<data0, heap, cache, now, filtered, scorerVars, parserVars, hookVars>>

NodeQuery ==
  \E kinds \in Combinators, A \in NodePredicates, B \in NodePredicates,
     fields \in NodePredicates :
    WhereNode(NodeOf(kinds, A, B, fields))

NodeNext == NodeQuery

NodeSpec == WhereInit /\ [][NodeNext]_vars

\* every combinator of the node and every field predicate of the node holds
AllOfNodeHold(message, node) ==
  /\ ~IsNull(node.AND) => \A i \in 1..Len(Val(node.AND)) : evaluateFilter(message, Val(node.AND)[i])
  /\ ~IsNull(node.OR) => \E i \in 1..Len(Val(node.OR)) : evaluateFilter(message, Val(node.OR)[i])
  /\ ~IsNull(node.NOT) => ~evaluateFilter(message, Val(node.NOT))
  /\ evaluateFilter(message, [node EXCEPT !.AND = Null, !.OR = Null, !.NOT = Null])

\* C26: a node with a combinator and field predicates at the same level
\* matches a message only if the combinator and every sibling field
\* predicate hold, and a node with several combinators applies all of them
C26_SiblingsApply ==
  Called("whereNode") =>
    \A k \in 1..Len(Val(ret).value) :
      AllOfNodeHold(data0[Val(ret).value[k]], Val(call).config)

\* C27: every entry of a ranking has a value of at least 0 and a percentage
\* between 0 and 100, for every ranking type, deleted messages included
C27_ValuesAndPercentagesInRange ==
  Called("getRankings") =>
    \A i \in 1..Len(Val(ret).value) :
      /\ Val(ret).value[i].value >= 0
      /\ Val(ret).value[i].percentage.num >= 0
      /\ Val(ret).value[i].percentage.num <= 100 * Val(ret).value[i].percentage.den

\* C29: for any author with at least one message, getUserStats satisfies
\* 1 <= longestStreak <= activeDays and 0 <= currentStreak <= longestStreak
C29_StreakBounds ==
  (Called("getUserStats") /\ Val(ret).ok) =>
    /\ 1 <= Val(ret).value.longestStreak
    /\ Val(ret).value.longestStreak <= Val(ret).value.activeDays
    /\ 0 <= Val(ret).value.currentStreak
    /\ Val(ret).value.currentStreak <= Val(ret).value.longestStreak

\* three active dates, a longest streak of two and a current streak of two
C29_Witness ==
  /\ Called("getUserStats")
  /\ Val(ret).ok
  /\ Val(ret).value.activeDays = 3
  /\ Val(ret).value.longestStreak = 2
  /\ Val(ret).value.currentStreak = 2

\* the references to filtered lists the cache holds
IsFilteredDataKey(k) == k[1] = "getFilteredData"

C24_Step ==
  (calls' = calls + 1 /\ Val(call').op # "clearCache") =>
    /\ heap'[DataRef] = heap[DataRef]
    /\ \A k \in DOMAIN cache : IsFilteredDataKey(k) => heap'[cache[k]] = heap[cache[k]]

\* C24: no query changes the order or the contents of the array the engine
\* was constructed with, nor of a filtered list already stored in the cache
C24_ArraysUntouched == [][C24_Step]_vars

(***************************************************************************)
(* ClockSpec: getRankings calls on one engine for the time-relative        *)
(* windows, the host clock advancing between them, over messages dated on  *)
(* the first instant of the last day and of the last week as seen from the *)
(* starting clock.                                                         *)
(***************************************************************************)
MaxClockMsgs == 2
MaxClockCalls == 2

RelativePeriods == {"last_day", "last_week", "last_month", "last_year"}

ClockTimes == {Now0, At(2025, 3, 30, 1), At(2025, 3, 24, 1)}

ClockConfigs ==
  { Config(p, NoBounds, Null, Some("message_count"), Null) : p \in {"last_day", "last_week"} }

ClockInit ==
  EngineInit(SeqsUpTo(Messages(Authors, ClockTimes, {TextActive}), MaxClockMsgs))

ClockQuery ==
  /\ calls < MaxClockCalls
  /\ \E c \in ClockConfigs : GetRankings(c)

ClockTick ==
  /\ now < Now0 + MaxTicks
  /\ Tick

ClockNext ==
  \/ ClockQuery
  \/ ClockTick

ClockSpec == ClockInit /\ [][ClockNext]_vars

\* C25: for a time-relative window the result of a query, memoized or not,
\* equals what a fresh engine over the same collection computes at the time
\* of the query: a message that has left the window is no longer counted
C25_FreshAtQueryTime ==
  (Called("getRankings") /\ Val(call).config.timePeriod \in RelativePeriods) =>
    Val(ret).value = FreshRankings(Val(call).config, Val(call).at)

(***************************************************************************)
(* Counts and activity histograms of getUserStats and getOverallStats.     *)
(* A histogram object is the sequence of its entries [key, count] in the   *)
(* order Object.entries yields them: keys that are canonical integers (an  *)
(* hour, a year) in ascending order, other keys in order of insertion.     *)
(* A calendar date or a month stands for the string toLocaleDateString     *)
(* formats it to.                                                          *)
(***************************************************************************)
HoursPerTick == 24 \div TicksPerDay

getHours(t) == TickOfDay(t) * HoursPerTick

LongWeekdays ==
  <<"Sunday", "Monday", "Tuesday", "Wednesday", "Thursday", "Friday", "Saturday">>

\* toLocaleDateString('en-US', { weekday: 'long' })
weekdayLong(t) == LongWeekdays[getDay(t) + 1]

\* toLocaleDateString('en-US', { year: 'numeric', month: 'numeric', day: 'numeric' })
dayDate(t) ==
  [month |-> getMonth(t) + 1, day |-> getDate(t), year |-> getFullYear(t)]

\* toLocaleDateString('en-US', { year: 'numeric', month: 'long' })
monthLong(t) == [month |-> MonthNames[getMonth(t) + 1], year |-> getFullYear(t)]

CountKey(keys, key) == Cardinality({ k \in 1..Len(keys) : keys[k] = key })

entriesOf(order, keys) ==
  [i \in 1..Len(order) |-> [key |-> order[i], count |-> CountKey(keys, order[i])]]

\* obj[key] = (obj[key] || 0) + 1 over the list, string keys
tallyInserted(keys) == entriesOf(Distinct(keys), keys)

RECURSIVE Ascending(_)
Ascending(S) ==
  IF S = {} THEN <<>>
  ELSE <<CHOOSE x \in S : \A y \in S : x <= y>>
       \o Ascending(S \ {CHOOSE x \in S : \A y \in S : x <= y})

\* obj[key] = (obj[key] || 0) + 1 over the list, integer keys
tallyNumbered(keys) == entriesOf(Ascending({ keys[k] : k \in 1..Len(keys) }), keys)

hourlyActivity(list) == tallyNumbered([i \in 1..Len(list) |-> getHours(list[i].timestamp)])
dailyActivity(list) == tallyInserted([i \in 1..Len(list) |-> weekdayLong(list[i].timestamp)])
dailyActivityByDate(list) == tallyInserted([i \in 1..Len(list) |-> dayDate(list[i].timestamp)])
monthlyActivity(list) == tallyInserted([i \in 1..Len(list) |-> monthLong(list[i].timestamp)])
yearlyActivity(list) == tallyNumbered([i \in 1..Len(list) |-> getFullYear(list[i].timestamp)])

\* a plausible slip: of two entries with equal counts the earlier is kept
RECURSIVE mostActiveKeepingFirst(_, _, _)
mostActiveKeepingFirst(entries, i, a) ==
  IF i > Len(entries) THEN a
  ELSE mostActiveKeepingFirst(entries, i + 1,
                              IF a.count >= entries[i].count THEN a ELSE entries[i])

\* Object.entries(h).reduce((a, b) => (h[a[0]] > h[b[0]] ? a : b)) from entry
\* i on, a being the accumulator
RECURSIVE mostActive(_, _, _)
mostActive(entries, i, a) ==
  IF i > Len(entries) THEN a
  ELSE mostActive(entries, i + 1, IF a.count > entries[i].count THEN a ELSE entries[i])

\* Object.entries(h).reduce((a, b) => (h[a[0]] < h[b[0]] ? a : b))
RECURSIVE mostQuiet(_, _, _)
mostQuiet(entries, i, a) ==
  IF i > Len(entries) THEN a
  ELSE mostQuiet(entries, i + 1, IF a.count < entries[i].count THEN a ELSE entries[i])

busiestOf(entries) == mostActive(entries, 2, entries[1]).key
quietestOf(entries) == mostQuiet(entries, 2, entries[1]).key

\* a plausible slip: the type is counted inside the branch for messages
\* with a content
CountTypeWithContent(list, type) ==
  Cardinality({ i \in 1..Len(list) :
                  list[i].message.type = type /\ ~IsNull(list[i].message.content) })

CountType(list, type) ==
  Cardinality({ i \in 1..Len(list) : list[i].message.type = type })

HistogramNames == {"hourly", "daily", "dailyByDate", "monthly", "yearly"}

histogramsOf(list) ==
  [hourly      |-> hourlyActivity(list),
   daily       |-> dailyActivity(list),
   dailyByDate |-> dailyActivityByDate(list),
   monthly     |-> monthlyActivity(list),
   yearly      |-> yearlyActivity(list)]

\* the counts, histograms and busiest / quietest fields of a UserStats or of
\* an OverallStats: counted is the list the type and status loop ran over,
\* histograms the activity objects filled afterwards
countsFrom(counted, histograms) ==
  [total      |-> Len(counted),
   types      |-> [ty \in ContentTypes |-> CountType(counted, ty)],
   statuses   |-> [s \in MessageStatuses |-> CountStatus(counted, s)],
   histograms |-> histograms,
   busiest    |-> [h \in HistogramNames |-> busiestOf(histograms[h])],
   quietest   |-> [h \in HistogramNames |-> quietestOf(histograms[h])]]

\* getUserStats: userMessages is sorted in place before the histograms are
\* filled
userCountsOutcome(userMessages) ==
  IF Len(userMessages) = 0
  THEN Err("No messages found for user")
  ELSE Ok(countsFrom(userMessages, histogramsOf(SortByTime(userMessages))))

\* getOverallStats: the histograms are filled in the order of filteredData
overallCountsOutcome(filteredData) ==
  IF Len(filteredData) = 0
  THEN Err("No data available for the specified time period")
  ELSE Ok(countsFrom(filteredData, histogramsOf(filteredData)))

userCountsIn(fd, author) ==
  [st |-> fd.st, outcome |-> userCountsOutcome(ByAuthor(fd.st.heap[fd.value], author))]

overallCountsIn(fd, after) ==
  [st |-> after.st, outcome |-> overallCountsOutcome(fd.st.heap[fd.value])]

GetUserCounts(author, config) ==
  Returned(userCountsIn(getFilteredData(engineState, config, now), author),
           "getUserStats", Some(author), config, Handed(config))

GetOverallCounts(config) ==
  Returned(overallCountsIn(getFilteredData(engineState, config, now),
                           getOverallStats(engineState, config, now)),
           "getOverallStats", Null, config, Handed(config))

(***************************************************************************)
(* CountSpec: one getUserStats or getOverallStats call on a fresh engine,  *)
(* over messages of two hours, two weekdays, three dates, two months and   *)
(* two years, in any array order.                                          *)
(***************************************************************************)
MaxCountMsgs == 2

ImageEdited ==
  [type |-> "image", status |-> "edited", content |-> Null, call |-> Null, poll |-> Null]

\* Mon 2025-03-31 12:00 and 00:00, Sun 2025-03-30 12:00, Fri 2025-02-28
\* 00:00, Sun 2024-03-31 12:00
CountTimes ==
  {Now0, Now0 - 1, At(2025, 3, 30, 1), At(2025, 2, 28, 0), At(2024, 3, 31, 1)}

CountConfigs == { Config("total", NoBounds, d, Null, Null) : d \in {Null, Some(FALSE)} }

CountInit ==
  EngineInit(SeqsUpTo(Messages(Authors, CountTimes, {TextActive, ImageEdited, TextDeleted}),
                      MaxCountMsgs))

CountUser ==
  /\ calls < 1
  /\ \E a \in Authors, c \in CountConfigs : GetUserCounts(a, c)

CountOverall ==
  /\ calls < 1
  /\ \E c \in CountConfigs : GetOverallCounts(c)

CountNext ==
  \/ CountUser
  \/ CountOverall

CountSpec == CountInit /\ [][CountNext]_vars

CountsReturned ==
  /\ ~IsNull(call)
  /\ Val(call).op \in {"getUserStats", "getOverallStats"}
  /\ Val(ret).ok

IsMaximal(entries, i) == \A j \in 1..Len(entries) : entries[j].count <= entries[i].count
IsMinimal(entries, i) == \A j \in 1..Len(entries) : entries[j].count >= entries[i].count

FirstMaximal(entries) ==
  entries[CHOOSE i \in 1..Len(entries) :
            IsMaximal(entries, i) /\ \A j \in 1..(i - 1) : ~IsMaximal(entries, j)].key
FirstMinimal(entries) ==
  entries[CHOOSE i \in 1..Len(entries) :
            IsMinimal(entries, i) /\ \A j \in 1..(i - 1) : ~IsMinimal(entries, j)].key
LastMaximal(entries) ==
  entries[CHOOSE i \in 1..Len(entries) :
            IsMaximal(entries, i) /\ \A j \in (i + 1)..Len(entries) : ~IsMaximal(entries, j)].key
LastMinimal(entries) ==
  entries[CHOOSE i \in 1..Len(entries) :
            IsMinimal(entries, i) /\ \A j \in (i + 1)..Len(entries) : ~IsMinimal(entries, j)].key

\* C23: when several hours, weekdays, dates, months or years share the
\* maximal count, the busiest one reported is the first of them in the
\* histogram's iteration order, and the quietest one reported is the first
\* of those sharing the minimal count
C23_FirstOfTiedEntries ==
  CountsReturned =>
    \A h \in HistogramNames :
      /\ Val(ret).value.busiest[h] = FirstMaximal(Val(ret).value.histograms[h])
      /\ Val(ret).value.quietest[h] = FirstMinimal(Val(ret).value.histograms[h])

\* C23 (amended): when several hours, weekdays, dates, months or years share
\* the maximal count, the busiest one reported is the last of them in the
\* histogram's iteration order, and the quietest one reported is the last of
\* those sharing the minimal count
C23_LastOfTiedEntries ==
  CountsReturned =>
    \A h \in HistogramNames :
      /\ Val(ret).value.busiest[h] = LastMaximal(Val(ret).value.histograms[h])
      /\ Val(ret).value.quietest[h] = LastMinimal(Val(ret).value.histograms[h])

\* two messages in the array order 2025, 2024 and Monday, Sunday: the years
\* are iterated in ascending order, the weekdays in order of insertion, and
\* the later entry of each tie is reported
C23_Witness ==
  /\ Called("getOverallStats")
  /\ Val(ret).ok
  /\ Len(Val(ret).value.histograms.yearly) = 2
  /\ Val(ret).value.histograms.yearly[1] = [key |-> 2024, count |-> 1]
  /\ Val(ret).value.histograms.yearly[2] = [key |-> 2025, count |-> 1]
  /\ Val(ret).value.busiest.yearly = 2025
  /\ Val(ret).value.quietest.yearly = 2025
  /\ Val(ret).value.histograms.daily[1] = [key |-> "Monday", count |-> 1]
  /\ Val(ret).value.histograms.daily[2] = [key |-> "Sunday", count |-> 1]
  /\ Val(ret).value.busiest.daily = "Sunday"
  /\ Val(ret).value.quietest.daily = "Sunday"

RECURSIVE SumOver(_, _)
SumOver(f, S) ==
  IF S = {} THEN 0
  ELSE f[CHOOSE x \in S : TRUE] + SumOver(f, S \ {CHOOSE x \in S : TRUE})

EntryCounts(entries) == [i \in 1..Len(entries) |-> entries[i].count]

MessageCountRanking(config, t) ==
  FreshRankings([config EXCEPT !.rankingType = Some("message_count"), !.limit = Null], t)

\* C28: in every UserStats the per-type counts, the per-status counts and
\* the hourly histogram each sum to messageCount; in every OverallStats the
\* type counts, the status counts and each of the five histograms sum to
\* totalMessages, which is the sum of the values of the unlimited
\* message_count ranking for the same config
C28_CountsConserved ==
  CountsReturned =>
    /\ SumOver(Val(ret).value.types, ContentTypes) = Val(ret).value.total
    /\ SumOver(Val(ret).value.statuses, MessageStatuses) = Val(ret).value.total
    /\ SumSeq(EntryCounts(Val(ret).value.histograms.hourly)) = Val(ret).value.total
    /\ Val(call).op = "getOverallStats" =>
         /\ \A h \in HistogramNames :
              SumSeq(EntryCounts(Val(ret).value.histograms[h])) = Val(ret).value.total
         /\ SumSeq(EntryValues(MessageCountRanking(Val(call).config, Val(call).at)))
              = Val(ret).value.total

\* an OverallStats over an edited image and a text of two authors, sent in
\* different hours of one day
C28_Witness ==
  /\ Called("getOverallStats")
  /\ Val(ret).ok
  /\ Val(ret).value.total = 2
  /\ Val(ret).value.types["image"] = 1
  /\ Val(ret).value.types["text"] = 1
  /\ Val(ret).value.statuses["edited"] = 1
  /\ Len(Val(ret).value.histograms.hourly) = 2
  /\ Len(Val(ret).value.histograms.daily) = 1
  /\ Len(MessageCountRanking(Val(call).config, Val(call).at)) = 2

(***************************************************************************)
(* useStats (hooks/useStats.ts, both versions).  A list is known by its    *)
(* identity and its length; the statistics shown are known by the list     *)
(* they were computed from.  A computeStats run is the closure of one      *)
(* render: it keeps the list of that render.  Rendering and the effects of *)
(* a render are part of the step that changed the state.  The callbacks of *)
(* requestIdleCallback, and timers of equal delay, run in the order they   *)
(* were requested; no query of a run fails on a list that is not empty.    *)
(***************************************************************************)
MaxLists == 4
MaxPending == 2

ListLengths == {0, 2}

\* computeStats() up to its first await: an empty list clears statsData at
\* once, any other list starts a run that awaits its delay
computeStats(list) ==
  IF list.length = 0
  THEN /\ statsData' = Null
       /\ UNCHANGED <<isLoading, pending>>
  ELSE /\ isLoading' = TRUE
       /\ pending' = Append(pending, list)
       /\ UNCHANGED statsData

\* the rest of a run, after its delay: the queries, then setStatsData
afterDelay(list) == statsData' = Some(list)

\* the store hands useFilteredMessages a new list
SetMessages(list) ==
  /\ filteredMessages' = list
  /\ IF debounces
     THEN /\ handler' = Some(list)
          /\ UNCHANGED <<debouncedMessages, pending, statsData, isLoading>>
     ELSE /\ debouncedMessages' = list
          /\ computeStats(list)
          /\ UNCHANGED handler
  /\ UNCHANGED <<debounces, engineVars, scorerVars, parserVars>>

\* useDebounce: the timer fires; a new value renders again, and the effect
\* calls the new computeStats
DebounceFires ==
  /\ ~IsNull(handler)
  /\ handler' = Null
  /\ debouncedMessages' = Val(handler)
  /\ IF Val(handler) = debouncedMessages
     THEN UNCHANGED <<pending, statsData, isLoading>>
     ELSE computeStats(Val(handler))
  /\ UNCHANGED <<debounces, filteredMessages, engineVars, scorerVars, parserVars>>

\* the delay of the oldest run is over: it computes and stores its result
RunCompletes ==
  /\ pending # <<>>
  /\ afterDelay(Head(pending))
  /\ isLoading' = FALSE
  /\ pending' = Tail(pending)
  /\ UNCHANGED <<debounces, filteredMessages, debouncedMessages, handler,
                 engineVars, scorerVars, parserVars>>

\* refreshStats(): clearCache on the instance, then computeStats()
RefreshStats ==
  /\ computeStats(debouncedMessages)
  /\ UNCHANGED <<debounces, filteredMessages, debouncedMessages, handler,
                 engineVars, scorerVars, parserVars>>

(***************************************************************************)
(* HookSpec: the hook mounted over an empty list; the list changes a       *)
(* bounded number of times, to empty and non-empty lists, at any moment.   *)
(***************************************************************************)
HookInit ==
  /\ debounces \in BOOLEAN
  /\ filteredMessages = NoMessages
  /\ debouncedMessages = NoMessages
  /\ handler = Null
  /\ pending = <<>>
  /\ statsData = Null
  /\ isLoading = FALSE
  /\ msg = IdleMessage
  /\ points = Null
  /\ engineIdle
  /\ parserIdle

HookSetMessages ==
  /\ filteredMessages.id < MaxLists
  /\ Len(pending) < MaxPending
  /\ \E n \in ListLengths : SetMessages([id |-> filteredMessages.id + 1, length |-> n])

HookRefreshStats ==
  /\ Len(pending) < MaxPending
  /\ RefreshStats

HookNext ==
  \/ HookSetMessages
  \/ DebounceFires
  \/ RunCompletes
  \/ HookRefreshStats

HookSpec == HookInit /\ [][HookNext]_vars

\* no timer and no run is outstanding
Settled == IsNull(handler) /\ pending = <<>>

\* C30: the statsData finally shown corresponds to the latest filtered
\* list: once every outstanding timer and run is over, statsData is null
\* when the list is empty and is the result for that list otherwise
C30_SettledShowsLatest ==
  Settled =>
    statsData = IF filteredMessages.length = 0 THEN Null ELSE Some(filteredMessages)

====
